---- MODULE Spec2Model ----
(***************************************************************************)
(* sialite: the Builder that writes the bundle of position-indexed files,  *)
(* the Server that maps the bundle and answers GetItem / GetHistory, the   *)
(* client-side VerifyProof, and the fastmap list writer Uniq.              *)
(*                                                                         *)
(* Files are sequences of bytes (0..255).  leavesHashes and Merkle proofs  *)
(* are sequences of hash values, one element per crypto.HashSize bytes;    *)
(* a hash value is the term built from its pre-image (<<0, data>> for a    *)
(* leaf, <<1, left, right>> for an inner node), so distinct pre-images     *)
(* have distinct hashes.                                                   *)
(***************************************************************************)
EXTENDS Integers, Sequences, FiniteSets, TLC

(***************************************************************************)
(* Bounds of the model.                                                    *)
(***************************************************************************)
\* Blocks added by Add actions after the initial ledger.
MaxBlocks == 2
\* One-transaction blocks already added when a long-ledger run starts.
PreItems == 254
\* Records written to a Uniq before it is closed.
MaxRecords == 4

(***************************************************************************)
(* Program constants.                                                      *)
(***************************************************************************)
MAX_HISTORY_SIZE == 2
HashSize == 32
NO_COMPRESSION == 0
SNAPPY == 1

(***************************************************************************)
(* Byte-level helpers: encoding/binary and the builtin copy.               *)
(***************************************************************************)
Max(a, b) == IF a > b THEN a ELSE b

Zeros(n) == [i \in 1..n |-> 0]

\* The first w bytes of binary.LittleEndian.PutUint64(buf, n).
RECURSIVE LEBytes(_, _)
LEBytes(n, w) == IF w = 0 THEN <<>> ELSE <<n % 256>> \o LEBytes(n \div 256, w - 1)

PutUint64(n) == LEBytes(n, 8)

\* binary.LittleEndian.Uint64 of a buffer whose high bytes are zero.
RECURSIVE Uint64(_)
Uint64(b) == IF b = <<>> THEN 0 ELSE b[1] + 256 * Uint64(Tail(b))

\* copy(dst, src): overwrites the first min(len(dst), len(src)) bytes of dst.
Copy(dst, src) == [i \in 1..Len(dst) |-> IF i <= Len(src) THEN src[i] ELSE dst[i]]

\* b[lo:hi] of a Go slice (0-based, hi exclusive); callers check the bounds.
Slice(b, lo, hi) == SubSeq(b, lo + 1, hi)

\* binary.PutUvarint: unsigned LEB128.
RECURSIVE PutUvarint(_)
PutUvarint(n) == IF n < 128 THEN <<n>> ELSE <<128 + (n % 128)>> \o PutUvarint(n \div 128)

\* bytes.Compare(a, b) < 0 for records of equal length (emsort.BytesLess).
RECURSIVE BytesLess(_, _)
BytesLess(a, b) ==
  IF a = <<>> \/ b = <<>> THEN Len(a) < Len(b)
  ELSE IF a[1] # b[1] THEN a[1] < b[1]
  ELSE BytesLess(Tail(a), Tail(b))

RECURSIVE Concat(_)
Concat(ss) == IF ss = <<>> THEN <<>> ELSE Head(ss) \o Concat(Tail(ss))

(***************************************************************************)
(* Addresses (types.UnlockHash, HashSize bytes).  AddrA and AddrB share    *)
(* their first byte and differ in the second.                              *)
(***************************************************************************)
MkAddr(b1, b2) == <<b1, b2>> \o Zeros(HashSize - 2)
AddrA == MkAddr(17, 34)
AddrB == MkAddr(17, 35)
AddrC == MkAddr(51, 68)
Addresses == {AddrA, AddrB, AddrC}

(***************************************************************************)
(* The canonical codec and the compressor (external dependencies).         *)
(* A payout is [UnlockHash, Value]: Value is the big-endian byte string of *)
(* the currency.  A transaction is [Inputs, Outputs, Arb]: the unlock      *)
(* hashes of its siacoin inputs, of its siacoin outputs, and the number of *)
(* bytes of arbitrary data.                                                *)
(***************************************************************************)
MarshalPayout(mp) == PutUint64(Len(mp.Value)) \o mp.Value \o mp.UnlockHash

MarshalTx(tx) ==
  PutUint64(Len(tx.Inputs)) \o Concat(tx.Inputs)
    \o PutUint64(Len(tx.Outputs)) \o Concat(tx.Outputs)
    \o PutUint64(tx.Arb) \o Zeros(tx.Arb)

\* snappy.Encode emitting one literal element: the uvarint of the
\* uncompressed length, the literal tag, the bytes.
SnappyEncode(raw) ==
  LET n == Len(raw)
      tag == IF n <= 60 THEN <<4 * (n - 1)>> ELSE <<240, n - 1>>
  IN  IF n = 0 THEN <<0>> ELSE PutUvarint(n) \o tag \o raw

(***************************************************************************)
(* crypto.Hash and the Merkle tree of NebulousLabs/merkletree.             *)
(***************************************************************************)
LeafSum(data) == <<0, data>>
NodeSum(l, r) == <<1, l, r>>
NilHash == <<>>

\* The largest power of two strictly below n (n >= 2).
RECURSIVE SplitAt(_, _)
SplitAt(n, k) == IF 2 * k < n THEN SplitAt(n, 2 * k) ELSE k

\* Root of the tree over the leaf hashes hs.
RECURSIVE MerkleRootOf(_)
MerkleRootOf(hs) ==
  IF Len(hs) = 0 THEN NilHash
  ELSE IF Len(hs) = 1 THEN hs[1]
  ELSE LET k == SplitAt(Len(hs), 1)
       IN  NodeSum(MerkleRootOf(SubSeq(hs, 1, k)), MerkleRootOf(SubSeq(hs, k + 1, Len(hs))))

\* The sibling hashes on the path from leaf i (0-based) to the root, bottom-up.
RECURSIVE ProofSetOf(_, _)
ProofSetOf(hs, i) ==
  IF Len(hs) <= 1 THEN <<>>
  ELSE LET k == SplitAt(Len(hs), 1)
           l == SubSeq(hs, 1, k)
           r == SubSeq(hs, k + 1, Len(hs))
       IN  IF i < k THEN Append(ProofSetOf(l, i), MerkleRootOf(r))
           ELSE Append(ProofSetOf(r, i - k), MerkleRootOf(l))

\* Number of siblings on the path of leaf i among n leaves.
RECURSIVE PathLen(_, _)
PathLen(i, n) ==
  IF n <= 1 THEN 0
  ELSE LET k == SplitAt(n, 1)
       IN  IF i < k THEN 1 + PathLen(i, k) ELSE 1 + PathLen(i - k, n - k)

\* The root recomputed from a leaf sum and its siblings (Len(sibs) = PathLen(i, n)).
RECURSIVE RootFromProof(_, _, _, _)
RootFromProof(sum, sibs, i, n) ==
  IF n <= 1 THEN sum
  ELSE LET k == SplitAt(n, 1)
           front == SubSeq(sibs, 1, Len(sibs) - 1)
           last == sibs[Len(sibs)]
       IN  IF i < k THEN NodeSum(RootFromProof(sum, front, i, k), last)
           ELSE NodeSum(last, RootFromProof(sum, front, i - k, n - k))

\* merkletree.VerifyProof: proofSet[0] is the leaf data, hashed by leafSum.
MerkletreeVerifyProof(merkleRoot, proofSet, proofIndex, numLeaves) ==
  /\ merkleRoot # NilHash
  /\ proofIndex >= 0
  /\ proofIndex < numLeaves
  /\ Len(proofSet) >= 1
  /\ Len(proofSet) - 1 = PathLen(proofIndex, numLeaves)
  /\ RootFromProof(LeafSum(proofSet[1]), Tail(proofSet), proofIndex, numLeaves) = merkleRoot

\* VerifyProof of the client: the proof is cut into HashSize pieces behind the data.
VerifyProof(merkleRoot, data, proof, proofIndex, numLeaves) ==
  MerkletreeVerifyProof(merkleRoot, <<data>> \o proof, proofIndex, numLeaves)

\* types.Block.MerkleRoot: payouts, then transactions, each hashed as a leaf.
BlockLeaves(block) ==
  [i \in 1..Len(block.MinerPayouts) |-> LeafSum(MarshalPayout(block.MinerPayouts[i]))]
    \o [i \in 1..Len(block.Transactions) |-> LeafSum(MarshalTx(block.Transactions[i]))]

BlockMerkleRoot(block) == MerkleRootOf(BlockLeaves(block))

(***************************************************************************)
(* Build parameters (parameters.json).                                     *)
(***************************************************************************)
Params(offsetLen, offsetIndexLen, addressPrefixLen, addressOffsetLen) ==
  [OffsetLen |-> offsetLen, OffsetIndexLen |-> offsetIndexLen,
   AddressPrefixLen |-> addressPrefixLen, AddressOffsetLen |-> addressOffsetLen]

\* Inliner active, two-byte indices and prefixes.
ParWide == Params(2, 2, 2, 2)
\* Inliner active, one-byte indices; AddrA and AddrB share the one-byte prefix.
ParNarrow == Params(2, 1, 1, 1)
\* No inliner, one-byte offsets into blockchain.
ParShort == Params(1, 2, 2, 1)

(***************************************************************************)
(* Input blocks.                                                           *)
(***************************************************************************)
Payout(a, value) == [UnlockHash |-> a, Value |-> value]
Tx(ins, outs, arb) == [Inputs |-> ins, Outputs |-> outs, Arb |-> arb]
Block(mps, txs) == [MinerPayouts |-> mps, Transactions |-> txs]

BlockEmpty == Block(<<>>, <<>>)
BlockPayA == Block(<<Payout(AddrA, <<>>)>>, <<>>)
BlockPayTxA == Block(<<Payout(AddrA, <<>>)>>, <<Tx(<<AddrA>>, <<>>, 0)>>)
BlockTwoTx ==
  Block(<<Payout(AddrC, <<7>>)>>,
        <<Tx(<<AddrA>>, <<AddrB>>, 0), Tx(<<>>, <<AddrB, AddrC>>, 0)>>)
BlockDup == Block(<<>>, <<Tx(<<>>, <<AddrA, AddrA>>, 65)>>)
\* One transaction that names no address.
BlockFiller == Block(<<>>, <<Tx(<<>>, <<>>, 0)>>)

\* The blocks by name; the ledger is kept as a sequence of names.
BlockOf ==
  [empty |-> BlockEmpty, payA |-> BlockPayA, payTxA |-> BlockPayTxA,
   twoTx |-> BlockTwoTx, dup |-> BlockDup, filler |-> BlockFiller]

InputBlocks == {"empty", "payA", "payTxA", "twoTx", "dup"}

(***************************************************************************)
(* Builder.                                                                *)
(***************************************************************************)
\* NewBuilder: the scratch buffer is as large as the largest record it
\* is sliced into.
BufferSize(p) == Max(8, p.AddressPrefixLen + p.OffsetIndexLen)

\* offsetEnd: uint64((1 << uint(8*offsetLen)) - 1).
OffsetEnd(p) == 2 ^ (8 * p.OffsetLen) - 1

NewBuilder(p) ==
  [blockchain |-> <<>>, blockchainLen |-> 0, leavesHashes |-> <<>>,
   headers |-> <<>>, offsetIndex |-> 0, offsets |-> <<>>,
   blockLocations |-> <<>>, addresses |-> <<>>,
   buf |-> Zeros(BufferSize(p)), tmpBuf |-> Zeros(8),
   offsetEnd |-> OffsetEnd(p)]

\* binary.LittleEndian.PutUint64(offsetFull, v) with offsetFull = s.buf[:8].
PutOffsetFull(buf, v) == Copy(buf, PutUint64(v))

\* copy(dst, src) for the view dst = buf[lo:hi].
CopyInto(buf, lo, hi, src) ==
  [i \in 1..Len(buf) |->
     IF i > lo /\ i <= hi /\ i - lo <= Len(src) THEN src[i - lo] ELSE buf[i]]

\* wireOffsetIndex := s.offsetIndex + 1, to avoid the special 0 value on wire.
WireOffsetIndex(offsetIndex) == offsetIndex + 1

\* The item's offset is written to offsets and its wire index is put into
\* locOfAddress = buf[addressPrefixLen:addressRecordSize].
StartItem(p, b) ==
  LET buf1 == PutOffsetFull(b.buf, b.blockchainLen)
      tmp == PutUint64(WireOffsetIndex(b.offsetIndex))
      buf2 == CopyInto(buf1, p.AddressPrefixLen,
                       p.AddressPrefixLen + p.OffsetIndexLen, tmp)
  IN  [b EXCEPT !.offsets = @ \o Slice(buf1, 0, p.OffsetLen),
                !.tmpBuf = tmp, !.buf = buf2]

\* writeAddress: the prefix of uh is copied in front of the wire index and
\* the record goes to the external sorter.
writeAddress(p, b, uh) ==
  LET buf1 == CopyInto(b.buf, 0, p.AddressPrefixLen, uh)
      addressLoc == Slice(buf1, 0, p.AddressPrefixLen + p.OffsetIndexLen)
  IN  [b EXCEPT !.buf = buf1, !.addresses = Append(@, addressLoc)]

RECURSIVE writeAddresses(_, _, _)
writeAddresses(p, b, uhs) ==
  IF uhs = <<>> THEN b
  ELSE writeAddresses(p, writeAddress(p, b, Head(uhs)), Tail(uhs))

\* One iteration of the loop over block.MinerPayouts.
AddMinerPayout(p, b, mp) ==
  LET b1 == writeAddress(p, StartItem(p, b), mp.UnlockHash)
      data == MarshalPayout(mp)
  IN  [b1 EXCEPT !.offsetIndex = @ + 1,
                 !.leavesHashes = Append(@, LeafSum(data)),
                 !.blockchainLen = @ + Len(data),
                 !.blockchain = @ \o data]

\* A variant of AddTransaction that advances blockchainLen by the length of
\* the encoding rather than of the compressed bytes written.
AddTransactionRawLen(p, b, tx) ==
  LET b1 == writeAddresses(p, StartItem(p, b), tx.Inputs \o tx.Outputs)
      data == MarshalTx(tx)
      compressed == SnappyEncode(data)
  IN  [b1 EXCEPT !.offsetIndex = @ + 1,
                 !.leavesHashes = Append(@, LeafSum(data)),
                 !.blockchainLen = @ + Len(data),
                 !.blockchain = @ \o compressed]

\* One iteration of the loop over block.Transactions.
AddTransaction(p, b, tx) ==
  LET b1 == writeAddresses(p, StartItem(p, b), tx.Inputs \o tx.Outputs)
      data == MarshalTx(tx)
      compressed == SnappyEncode(data)
  IN  [b1 EXCEPT !.offsetIndex = @ + 1,
                 !.leavesHashes = Append(@, LeafSum(data)),
                 !.blockchainLen = @ + Len(compressed),
                 !.blockchain = @ \o compressed]

RECURSIVE AddMinerPayouts(_, _, _)
AddMinerPayouts(p, b, mps) ==
  IF mps = <<>> THEN b
  ELSE AddMinerPayouts(p, AddMinerPayout(p, b, Head(mps)), Tail(mps))

RECURSIVE AddTransactions(_, _, _)
AddTransactions(p, b, txs) ==
  IF txs = <<>> THEN b
  ELSE AddTransactions(p, AddTransaction(p, b, Head(txs)), Tail(txs))

\* A variant of BlockLoc that writes firstMinerPayout to both halves of the
\* entry.
BlockLocPayoutTwice(p, buf, firstMinerPayout, firstTransaction) ==
  LET buf1 == CopyInto(buf, 0, p.OffsetIndexLen, PutUint64(firstMinerPayout))
  IN  CopyInto(buf1, p.OffsetIndexLen, 2 * p.OffsetIndexLen, PutUint64(firstMinerPayout))

\* The (firstMinerPayout, firstTransaction) entry written to blockLocations.
BlockLoc(p, buf, firstMinerPayout, firstTransaction) ==
  LET buf1 == CopyInto(buf, 0, p.OffsetIndexLen, PutUint64(firstMinerPayout))
  IN  CopyInto(buf1, p.OffsetIndexLen, 2 * p.OffsetIndexLen, PutUint64(firstTransaction))

\* A variant of TooLargeOffset that also rejects a file of exactly offsetEnd bytes.
TooLargeOffsetAtEnd(b) == b.blockchainLen >= b.offsetEnd

\* The bounds check that ends Add.
TooLargeOffset(b) == b.blockchainLen > b.offsetEnd

\* The ends of the views s.buf[:n] that Add takes of its scratch buffer:
\* offsetFull, offset, blockLoc and addressLoc.
AddViews(p) ==
  <<8, p.OffsetLen, 2 * p.OffsetIndexLen, p.AddressPrefixLen + p.OffsetIndexLen>>

\* s.buf[:n] panics when n is above the capacity of the buffer, which
\* make([]byte, bufferSize) sets to its length.
SliceBounds == "panic: slice bounds out of range"
ViewsFault(p, buf) == \E i \in 1..Len(AddViews(p)) : AddViews(p)[i] > Len(buf)

\* Builder.Add: the builder after the block, and the error returned.  The
\* header is written before the views are taken.
Add(p, b, block) ==
  LET firstMinerPayout == b.offsetIndex
      b0 == [b EXCEPT !.headers = Append(@, BlockMerkleRoot(block))]
      b1 == AddMinerPayouts(p, b0, block.MinerPayouts)
      firstTransaction == b1.offsetIndex
      b2 == AddTransactions(p, b1, block.Transactions)
      buf3 == BlockLoc(p, b2.buf, firstMinerPayout, firstTransaction)
      b3 == [b2 EXCEPT !.buf = buf3, !.tmpBuf = PutUint64(firstTransaction),
                       !.blockLocations = @ \o Slice(buf3, 0, 2 * p.OffsetIndexLen)]
  IN  IF ViewsFault(p, b.buf) THEN [builder |-> b0, err |-> SliceBounds]
      ELSE [builder |-> b3, err |-> IF TooLargeOffset(b3) THEN "too large offset" ELSE "nil"]

(***************************************************************************)
(* emsort and the fastmap MultiMap (the sorter and the three-file address  *)
(* map behind Builder.addresses and Server.addressMap).  The page layout   *)
(* of the prefix map is left out: addressesFastmapData is the sequence of  *)
(* its rows [key, container] in key order.                                 *)
(***************************************************************************)
\* emsort.SortedWriter.Close: the records in ascending byte order.
EmsortClose(records) == SortSeq(records, BytesLess)

\* The inliner is used when an item index fills the slot of a list offset.
InlinerActive(p) == p.AddressOffsetLen = p.OffsetIndexLen

ContainerLen(p) == IF InlinerActive(p) THEN 2 * p.OffsetIndexLen ELSE p.OffsetIndexLen

Ones(n) == [i \in 1..n |-> 255]

RecKey(p, rec) == Slice(rec, 0, p.AddressPrefixLen)
RecValue(p, rec) == Slice(rec, p.AddressPrefixLen, p.AddressPrefixLen + p.OffsetIndexLen)

\* Exact repeats of a record are dropped (the input is sorted).
DropRepeats(recs) ==
  LET IsNew(i) == i = 1 \/ recs[i] # recs[i - 1]
      kept == SelectSeq([i \in 1..Len(recs) |-> i], IsNew)
  IN  [j \in 1..Len(kept) |-> recs[kept[j]]]

\* The keys of a sorted record stream, each once, in order.
KeysOf(p, recs) ==
  LET IsFirst(i) == i = 1 \/ RecKey(p, recs[i]) # RecKey(p, recs[i - 1])
      firsts == SelectSeq([i \in 1..Len(recs) |-> i], IsFirst)
  IN  [j \in 1..Len(firsts) |-> RecKey(p, recs[firsts[j]])]

\* The concatenation of values of w bytes each.
ConcatValues(vals, w) ==
  [j \in 1..(Len(vals) * w) |-> vals[((j - 1) \div w) + 1][((j - 1) % w) + 1]]

\* The values written for key, in stream order.
ValuesOf(p, recs, key) ==
  LET HasKey(rec) == RecKey(p, rec) = key
      mine == SelectSeq(recs, HasKey)
  IN  [i \in 1..Len(mine) |-> RecValue(p, mine[i])]

\* The value slot of one key and the list appended to addressesIndices.
\* One value is stored in place with zero padding; otherwise the slot is the
\* 0xFF marker and the byte offset of the list.  Without inliner every key
\* has a list and the slot is its offset.
MultiMapSlot(p, vals, offset) ==
  IF InlinerActive(p)
  THEN IF Len(vals) = 1
       THEN [container |-> vals[1] \o Zeros(p.OffsetIndexLen), list |-> <<>>]
       ELSE [container |-> Ones(p.OffsetIndexLen) \o LEBytes(offset, p.AddressOffsetLen),
             list |-> PutUvarint(Len(vals)) \o ConcatValues(vals, p.OffsetIndexLen)]
  ELSE [container |-> Copy(Zeros(ContainerLen(p)), LEBytes(offset, p.AddressOffsetLen)),
        list |-> PutUvarint(Len(vals)) \o ConcatValues(vals, p.OffsetIndexLen)]

RECURSIVE MultiMapWriteKeys(_, _, _, _)
MultiMapWriteKeys(p, recs, keys, out) ==
  IF keys = <<>> THEN out
  ELSE LET slot == MultiMapSlot(p, ValuesOf(p, recs, Head(keys)), Len(out.indices))
       IN  MultiMapWriteKeys(p, recs, Tail(keys),
             [data |-> Append(out.data, [key |-> Head(keys), container |-> slot.container]),
              indices |-> out.indices \o slot.list])

\* The MultiMap writer fed with the sorted records, then closed.
MultiMapWrite(p, sorted) ==
  LET recs == DropRepeats(sorted)
  IN  MultiMapWriteKeys(p, recs, KeysOf(p, recs), [data |-> <<>>, indices |-> <<>>])

\* binary.Uvarint: the value and the number of bytes read (0: buffer too small).
RECURSIVE Uvarint(_)
Uvarint(b) ==
  IF b = <<>> THEN [v |-> 0, n |-> 0]
  ELSE IF b[1] < 128 THEN [v |-> b[1], n |-> 1]
  ELSE LET r == Uvarint(Tail(b))
       IN  IF r.n = 0 THEN r ELSE [v |-> (b[1] - 128) + 128 * r.v, n |-> r.n + 1]

\* The list at lenPos of addressesIndices: a count and count values.
ReadList(p, indices, lenPos) ==
  IF lenPos > Len(indices) THEN [values |-> <<>>, err |-> "panic"]
  ELSE LET k == Uvarint(Slice(indices, lenPos, Len(indices)))
           dataStart == lenPos + k.n
           dataEnd == dataStart + k.v * p.OffsetIndexLen
       IN  IF k.n = 0 THEN [values |-> <<>>, err |-> "bad varint"]
           ELSE IF dataEnd > Len(indices) THEN [values |-> <<>>, err |-> "too large size"]
           ELSE [values |-> Slice(indices, dataStart, dataEnd), err |-> "nil"]

\* MultiMap.Lookup: the concatenated values of the prefix; found = FALSE is
\* the nil result of a miss.
MultiMapLookup(p, data, indices, prefix) ==
  LET rows == {i \in 1..Len(data) : data[i].key = prefix}
      c == data[CHOOSE i \in rows : TRUE].container
      first == Slice(c, 0, p.OffsetIndexLen)
      second == Slice(c, p.OffsetIndexLen, Len(c))
  IN  IF rows = {} THEN [found |-> FALSE, values |-> <<>>, err |-> "nil"]
      ELSE IF ~InlinerActive(p)
      THEN [found |-> TRUE] @@ ReadList(p, indices, Uint64(c))
      ELSE IF first = Ones(p.OffsetIndexLen)
      THEN [found |-> TRUE] @@ ReadList(p, indices, Uint64(second))
      ELSE [found |-> TRUE, values |-> first, err |-> "nil"]

(***************************************************************************)
(* Builder.Close: the output files are flushed and closed; closing the     *)
(* sorter feeds the MultiMap writer, which writes the address files.       *)
(***************************************************************************)
Close(p, b) ==
  LET mm == MultiMapWrite(p, EmsortClose(b.addresses))
  IN  [addressesFastmapData |-> mm.data, addressesIndices |-> mm.indices]

(***************************************************************************)
(* Server.  The mapped regions are the files of the directory: f is the    *)
(* directory and s the Server's own fields.                                *)
(***************************************************************************)
NewServer(f) ==
  LET p == f.parameters
      nblocks == Len(f.blockLocations) \div (2 * p.OffsetIndexLen)
      nitems == Len(f.offsets) \div p.OffsetLen
  IN  [offsetLen |-> p.OffsetLen, offsetIndexLen |-> p.OffsetIndexLen,
       addressPrefixLen |-> p.AddressPrefixLen,
       nblocks |-> nblocks, nitems |-> nitems,
       err |-> IF nblocks * (2 * p.OffsetIndexLen) # Len(f.blockLocations)
               THEN "Bad length of blockLocations"
               ELSE IF nitems * p.OffsetLen # Len(f.offsets)
               THEN "Bad length of offsets" ELSE "nil"]

\* copy(tmpBytes, region[lo:hi]) followed by binary.LittleEndian.Uint64(tmpBytes).
ReadUint(region, lo, hi) == Uint64(Copy(Zeros(8), Slice(region, lo, hi)))

\* region[lo:hi] is a valid slice expression of a mapped region.
InBounds(region, lo, hi) == 0 <= lo /\ lo <= hi /\ hi <= Len(region)

getPayoutsStart(s, f, index) ==
  LET p1 == index * (2 * s.offsetIndexLen)
  IN  ReadUint(f.blockLocations, p1, p1 + s.offsetIndexLen)

getBlockLocation(s, f, index) ==
  LET p1 == index * (2 * s.offsetIndexLen)
      p2 == p1 + s.offsetIndexLen
      p3 == p2 + s.offsetIndexLen
      p4 == p3 + s.offsetIndexLen
      payoutsStart == ReadUint(f.blockLocations, p1, p2)
      txsStart == ReadUint(f.blockLocations, p2, p3)
      nextStart == IF index # s.nblocks - 1
                   THEN ReadUint(f.blockLocations, p3, p4) ELSE s.nitems
  IN  IF ~InBounds(f.blockLocations, p1, p3) THEN [ok |-> FALSE]
      ELSE IF index # s.nblocks - 1 /\ ~InBounds(f.blockLocations, p3, p4) THEN [ok |-> FALSE]
      ELSE [ok |-> TRUE, payoutsStart |-> payoutsStart, txsStart |-> txsStart,
            nleaves |-> nextStart - payoutsStart]

\* sort.Search(n, f) with f(h) = getPayoutsStart(h) > itemIndex.
RECURSIVE SearchBlock(_, _, _, _, _)
SearchBlock(s, f, itemIndex, i, j) ==
  IF i < j
  THEN LET h == (i + j) \div 2
       IN  IF ~(getPayoutsStart(s, f, h) > itemIndex)
           THEN SearchBlock(s, f, itemIndex, h + 1, j)
           ELSE SearchBlock(s, f, itemIndex, i, h)
  ELSE i

\* Compression of the item: payouts are stored raw, transactions compressed.
CompressionOf(itemIndex, txsStart) ==
  IF itemIndex < txsStart THEN NO_COMPRESSION ELSE SNAPPY

\* The proof set of the cached tree over the block's leaf hashes: empty when
\* the index is no leaf of the tree.
BuildMerkleProof(leaves, index) ==
  IF index >= 0 /\ index < Len(leaves) THEN ProofSetOf(leaves, index) ELSE <<>>

NoItem == [Data |-> <<>>, Compression |-> 0, Block |-> 0, Index |-> 0,
           NumLeaves |-> 0, NumMinerPayouts |-> 0, MerkleProof |-> <<>>]

Panic == [err |-> "panic", item |-> NoItem]

\* A variant of TooLargeIndex that lets the index nitems through.
TooLargeIndexBeyond(s, itemIndex) == itemIndex > s.nitems

\* The first check of GetItem: itemIndex >= s.nitems.
TooLargeIndex(s, itemIndex) == itemIndex >= s.nitems

\* Server.GetItem from data := s.Blockchain[dataStart:dataEnd] on: the block
\* is searched, the item filled in and the proof built.
GetItemData(s, f, itemIndex, dataStart, dataEnd) ==
  LET blockIndex == SearchBlock(s, f, itemIndex, 0, s.nblocks) - 1
      loc == getBlockLocation(s, f, blockIndex)
      hstart == loc.payoutsStart
      hstop == hstart + loc.nleaves
      index == itemIndex - loc.payoutsStart
  IN  IF ~InBounds(f.blockchain, dataStart, dataEnd) THEN Panic
      ELSE IF ~loc.ok THEN Panic
      ELSE IF ~InBounds(f.leavesHashes, hstart, hstop) THEN Panic
      ELSE [err |-> "nil",
            item |-> [Data |-> Slice(f.blockchain, dataStart, dataEnd),
                      Compression |-> CompressionOf(itemIndex, loc.txsStart),
                      Block |-> blockIndex,
                      Index |-> index,
                      NumLeaves |-> loc.nleaves,
                      NumMinerPayouts |-> 0,
                      MerkleProof |-> BuildMerkleProof(Slice(f.leavesHashes, hstart, hstop), index)]]

\* Server.GetItem.  err is "nil", the error returned, or "panic" for a
\* slice expression out of range.
GetItem(s, f, itemIndex) ==
  IF TooLargeIndex(s, itemIndex) THEN [err |-> "ErrTooLargeIndex", item |-> NoItem]
  ELSE
  LET start == itemIndex * s.offsetLen
      dataStart == ReadUint(f.offsets, start, start + s.offsetLen)
      dataEnd == IF itemIndex # s.nitems - 1
                 THEN ReadUint(f.offsets, start + s.offsetLen, start + 2 * s.offsetLen)
                 ELSE Len(f.blockchain)
  IN  IF ~InBounds(f.offsets, start, start + s.offsetLen) THEN Panic
      ELSE GetItemData(s, f, itemIndex, dataStart, dataEnd)

\* A variant of HistorySize without the cap.
HistorySizeUncapped(n) == n

\* The cap on the number of values GetHistory serves.
HistorySize(n) == IF n > MAX_HISTORY_SIZE THEN MAX_HISTORY_SIZE ELSE n

\* A variant of HistoryItemIndex that walks the list from its end.
HistoryItemIndexBackwards(s, values, i) ==
  LET last == Len(values) \div s.offsetIndexLen - 1
  IN  ReadUint(values, (last - i) * s.offsetIndexLen, (last - i + 1) * s.offsetIndexLen) - 1

\* itemIndex := wireItemIndex - 1 of the i-th value (0-based).
HistoryItemIndex(s, values, i) ==
  ReadUint(values, i * s.offsetIndexLen, (i + 1) * s.offsetIndexLen) - 1

\* The loop of GetHistory from value i on; it stops at the first failure.
RECURSIVE HistoryLoop(_, _, _, _, _, _)
HistoryLoop(s, f, values, i, size, history) ==
  IF i >= size THEN [history |-> history, next |-> "", err |-> "nil"]
  ELSE LET r == GetItem(s, f, HistoryItemIndex(s, values, i))
       IN  IF r.err # "nil" THEN [history |-> <<>>, next |-> "", err |-> r.err]
           ELSE HistoryLoop(s, f, values, i + 1, size, Append(history, r.item))

\* Server.GetHistory.
GetHistory(s, f, address, start) ==
  IF Len(address) # HashSize
  THEN [history |-> <<>>, next |-> "", err |-> "size of address"]
  ELSE LET l == MultiMapLookup(f.parameters, f.addressesFastmapData, f.addressesIndices,
                               Slice(address, 0, s.addressPrefixLen))
       IN  IF l.err # "nil" \/ ~l.found
           THEN [history |-> <<>>, next |-> "", err |-> l.err]
           ELSE HistoryLoop(s, f, l.values, 0,
                            HistorySize(Len(l.values) \div s.offsetIndexLen), <<>>)

(***************************************************************************)
(* fastmap.Uniq, the list writer: it takes sorted (key, value) records,    *)
(* drops repeated pairs and writes, for each key, one record to the map    *)
(* writer fm and one list (count, then values) to the indices writer.      *)
(* fm and indices hold the byte strings passed to their Write, in order.   *)
(***************************************************************************)
NewUniq(keyLen, valueLen, offsetLen) ==
  [keyLen |-> keyLen, valueLen |-> valueLen, offsetLen |-> offsetLen,
   fmRecord |-> Zeros(keyLen + valueLen),
   values |-> <<>>, offset |-> 0, fm |-> <<>>, indices |-> <<>>]

\* prevKey and offsetBytes are views of fmRecord.
PrevKey(u) == Slice(u.fmRecord, 0, u.keyLen)

\* Uniq.dump: the record of the previous key and its list are written out,
\* and the offset of the next list is put into offsetBytes.
dump(u) ==
  LET lenBuf == PutUvarint(Len(u.values) \div 4)
      offset == u.offset + Len(lenBuf) + Len(u.values)
  IN  [u EXCEPT !.fm = Append(@, u.fmRecord),
                !.indices = @ \o <<lenBuf, u.values>>,
                !.offset = offset,
                !.fmRecord = CopyInto(@, u.keyLen, Len(@), PutUint64(offset)),
                !.values = <<>>]

\* A variant of UniqWrite that appends a repeated value as well.
UniqWriteRepeats(u, b) ==
  IF Len(b) # u.keyLen + u.valueLen THEN [uniq |-> u, err |-> "Wrong record len"]
  ELSE LET key == Slice(b, 0, u.keyLen)
           value == Slice(b, u.keyLen, Len(b))
           u1 == IF Len(u.values) = 0 \/ key = PrevKey(u) THEN u ELSE dump(u)
           u2 == [u1 EXCEPT !.fmRecord = Copy(@, key)]
       IN  [uniq |-> [u2 EXCEPT !.values = @ \o value], err |-> "nil"]

\* Uniq.Write.
UniqWrite(u, b) ==
  IF Len(b) # u.keyLen + u.valueLen THEN [uniq |-> u, err |-> "Wrong record len"]
  ELSE LET key == Slice(b, 0, u.keyLen)
           value == Slice(b, u.keyLen, Len(b))
       IN  IF Len(u.values) = 0
           THEN [uniq |-> [u EXCEPT !.fmRecord = Copy(@, key), !.values = @ \o value],
                 err |-> "nil"]
           ELSE IF key = PrevKey(u)
           THEN IF value = Slice(u.values, Len(u.values) - u.valueLen, Len(u.values))
                THEN [uniq |-> u, err |-> "nil"]
                ELSE [uniq |-> [u EXCEPT !.values = @ \o value], err |-> "nil"]
           ELSE LET d == dump(u)
                IN  [uniq |-> [d EXCEPT !.fmRecord = Copy(@, key), !.values = @ \o value],
                     err |-> "nil"]

\* Uniq.Close; closing fm and indices writes nothing more.
UniqClose(u) == dump(u)

\* fastmap.Map.Lookup over the records given to the map writer: the value
\* bytes stored with the key, or a miss.
MapLookup(fm, keyLen, key) ==
  LET rows == {j \in 1..Len(fm) : Slice(fm[j], 0, keyLen) = key}
      j == CHOOSE x \in rows : \A y \in rows : x <= y
  IN  IF rows = {} THEN [found |-> FALSE, value |-> <<>>]
      ELSE [found |-> TRUE, value |-> Slice(fm[j], keyLen, Len(fm[j]))]

\* UniqMap.Lookup on the files a closed Uniq left; values is the indices file.
UniqMapLookup(u, key) ==
  LET m == MapLookup(u.fm, u.keyLen, key)
      values == Concat(u.indices)
      lenPos == Uint64(Copy(Zeros(8), m.value))
      size0 == Uvarint(Slice(values, lenPos, Len(values)))
      dataStart == lenPos + size0.n
      dataEnd == dataStart + size0.v * u.valueLen
  IN  IF ~m.found THEN [found |-> FALSE, values |-> <<>>, err |-> "nil"]
      ELSE IF lenPos > Len(values) THEN [found |-> TRUE, values |-> <<>>, err |-> "panic"]
      ELSE IF size0.n = 0 THEN [found |-> TRUE, values |-> <<>>, err |-> "bad varint"]
      ELSE IF dataEnd > Len(values) THEN [found |-> TRUE, values |-> <<>>, err |-> "too large size"]
      ELSE [found |-> TRUE, values |-> Slice(values, dataStart, dataEnd), err |-> "nil"]

(***************************************************************************)
(* State.                                                                  *)
(***************************************************************************)
VARIABLES
  par,      \* the parameters given to NewBuilder
  builder,  \* the Builder's own fields; addresses holds the sorter's records
  dir,      \* the files of the output directory, by name
  ledger,   \* the blocks given to Add so far, in order
  added,    \* number of Add actions taken
  addOk,    \* every Add so far returned nil
  lastErr,  \* what the latest Add returned
  phase,    \* "building", "crashed" (Add panicked), "closed" or "close failed", "serving"
  server,   \* the Server's fields once NewServer has run
  resp,     \* the request the client made and the Server's result, until taken
  uniq,     \* a Uniq, the records written to it and its latest result
  mem,      \* the mapping of each file of the Server: its state, the munmaps done
  net,      \* the block download: its position, the blocks sent, the sessions ended
  call      \* a call of a function of the client or of the codec: its input and result

cacheVars == <<par, builder, dir, ledger, added, addOk, lastErr, phase, server, resp, mem, net, call>>
cacheVarsNoCall == <<par, builder, dir, ledger, added, addOk, lastErr, phase, server, resp, uniq, mem, net>>
cacheVarsNoNet == <<par, builder, dir, ledger, added, addOk, lastErr, phase, server, resp, uniq, mem, call>>
vars == <<par, builder, dir, ledger, added, addOk, lastErr, phase, server, resp, uniq, mem, net, call>>

\* The files Add writes, and the fields the Builder keeps in memory.
FileFields == {"blockchain", "leavesHashes", "headers", "offsets", "blockLocations"}
BuilderFields == {"blockchainLen", "offsetIndex", "addresses", "buf", "tmpBuf", "offsetEnd"}

Fields(r, names) == [x \in names |-> r[x]]

\* The Builder together with the files it writes to.
Writing == [x \in BuilderFields \cup FileFields |->
              IF x \in BuilderFields THEN builder[x] ELSE dir[x]]

\* The files NewBuilder creates besides those Add writes; addressesTmp tells
\* whether the sorter's scratch file addresses.tmp exists.
AddressFiles(p) ==
  [parameters |-> p, addressesFastmapData |-> <<>>, addressesIndices |-> <<>>,
   addressesTmp |-> TRUE]

NoServer == [offsetLen |-> 0, offsetIndexLen |-> 0, addressPrefixLen |-> 0,
             nblocks |-> 0, nitems |-> 0, err |-> "closed"]
NoResp == [op |-> "none"]
NoUniq == [phase |-> "none"]
NoDownload == [pc |-> "none"]
NoCall == [fn |-> "none"]

\* The []byte fields of Server in the order of the struct, which is the
\* order NewServer maps them in and Close unmaps them in.
Regions == <<"blockchain", "offsets", "blockLocations", "leavesHashes",
             "addressesFastmapData", "addressesFastmapPrefixes", "addressesIndices">>

RegionSet == {Regions[k] : k \in 1..Len(Regions)}

NoMappings == [r \in RegionSet |-> [state |-> "none", unmaps |-> 0]]

\* The loop of NewServer over the []byte fields.  failAt = 0 when every
\* os.Open, Stat and syscall.Mmap succeeds; otherwise the failAt-th file
\* fails and NewServer returns with the files before it mapped.
MapFiles(failAt) ==
  [mem |-> [r \in RegionSet |->
              IF \E k \in 1..Len(Regions) : Regions[k] = r /\ (failAt = 0 \/ k < failAt)
              THEN [state |-> "mapped", unmaps |-> 0]
              ELSE [state |-> "none", unmaps |-> 0]],
   err |-> IF failAt = 0 THEN "nil" ELSE "mmap"]

\* syscall.Munmap of a field: EINVAL when the field is not an active
\* mapping, the error of the munmap call when it fails, else the region is
\* released.
Munmap(m, r, fails) ==
  IF m[r].state # "mapped" THEN [mem |-> m, err |-> "EINVAL"]
  ELSE IF fails THEN [mem |-> m, err |-> "munmap"]
  ELSE [mem |-> [m EXCEPT ![r] = [state |-> "unmapped", unmaps |-> @.unmaps + 1]],
        err |-> "nil"]

\* Server.Close from the k-th []byte field on: it returns at the first
\* error.  failAt is the field whose munmap call fails, 0 for none.
RECURSIVE ServerClose(_, _, _)
ServerClose(m, k, failAt) ==
  IF k > Len(Regions) THEN [mem |-> m, err |-> "nil"]
  ELSE LET r == Munmap(m, Regions[k], k = failAt)
       IN  IF r.err # "nil" THEN r ELSE ServerClose(r.mem, k + 1, failAt)

\* n filler blocks added to a Builder, and whether every Add returned nil.
RECURSIVE AddFillers(_, _, _)
AddFillers(p, st, n) ==
  IF n = 0 THEN st
  ELSE IF n = 1
  THEN LET r == Add(p, st.builder, BlockFiller)
       IN  [builder |-> r.builder, ok |-> st.ok /\ r.err = "nil"]
  ELSE LET half == AddFillers(p, st, n \div 2)
       IN  IF half.ok \in BOOLEAN THEN AddFillers(p, half, n - (n \div 2)) ELSE half

\* The runs start on a fresh Builder or on one that already holds PreItems items.
Starts ==
  {<<ParWide, 0>>, <<ParNarrow, 0>>, <<ParShort, 0>>,
   <<ParWide, PreItems>>, <<ParNarrow, PreItems>>}

Init ==
  \E st \in Starts :
    LET pre == AddFillers(st[1], [builder |-> NewBuilder(st[1]), ok |-> TRUE], st[2])
    IN  /\ par = st[1]
        /\ builder = Fields(pre.builder, BuilderFields)
        /\ dir = Fields(pre.builder, FileFields) @@ AddressFiles(st[1])
        /\ ledger = [i \in 1..st[2] |-> "filler"]
        /\ added = 0
        /\ addOk = pre.ok
        /\ lastErr = "nil"
        /\ phase = "building"
        /\ server = NoServer
        /\ resp = NoResp
        /\ uniq = NoUniq
        /\ mem = NoMappings
        /\ net = NoDownload
        /\ call = NoCall

(***************************************************************************)
(* Actions.                                                                *)
(***************************************************************************)
AddBlock(block) ==
  /\ phase = "building"
  /\ added < MaxBlocks
  /\ LET r == Add(par, Writing, BlockOf[block])
     IN  /\ builder' = Fields(r.builder, BuilderFields)
         /\ dir' = Fields(r.builder, FileFields) @@ dir
         /\ lastErr' = r.err
         /\ addOk' = (addOk /\ r.err = "nil")
         /\ phase' = IF r.err = SliceBounds THEN "crashed" ELSE phase
  /\ ledger' = Append(ledger, block)
  /\ added' = added + 1
  /\ UNCHANGED <<par, server, resp, uniq, mem, net, call>>

\* The steps of Builder.Close, in order; each may return an error.
CloseSteps ==
  <<"blockchainBuf.Flush", "blockchain.Close", "leavesHashesBuf.Flush",
    "leavesHashes.Close", "headersFile.Close", "offsets.Close",
    "blockLocations.Close", "addresses.Close", "addressestmp.Close", "os.Remove">>

\* Builder.Close when its failAt-th step fails (0: none does): the error
\* returned and the files it leaves changed.  It returns at the first
\* error; addresses.tmp is removed by the last step alone.
BuilderClose(p, b, failAt) ==
  IF failAt = 0
  THEN [err |-> "nil", files |-> Close(p, b) @@ [addressesTmp |-> FALSE]]
  ELSE [err |-> CloseSteps[failAt], files |-> [addressesTmp |-> TRUE]]

\* Builder.Close, with success or with an error at one of its steps.
CloseBuilder(failAt) ==
  /\ phase = "building"
  /\ LET r == BuilderClose(par, Writing, failAt)
     IN  /\ phase' = IF r.err = "nil" THEN "closed" ELSE "close failed"
         /\ dir' = r.files @@ dir
  /\ builder' = [builder EXCEPT !.addresses = <<>>]
  /\ UNCHANGED <<par, ledger, added, addOk, lastErr, server, resp, uniq, mem, net, call>>

\* NewServer returning a Server: every file is mapped and the lengths of
\* blockLocations and offsets are accepted.
OpenServer ==
  /\ phase = "closed"
  /\ LET s == NewServer(dir)
     IN  /\ s.err = "nil"
         /\ server' = s
  /\ mem' = MapFiles(0).mem
  /\ phase' = "serving"
  /\ UNCHANGED <<par, builder, dir, ledger, added, addOk, lastErr, resp, uniq, net, call>>

\* The item indices requested: the first, the last, and the two past the end.
RequestedItems == {0, server.nitems - 1, server.nitems, server.nitems + 1}

\* The client makes one request at a time.
RequestItem(i) ==
  /\ phase = "serving"
  /\ resp = NoResp
  /\ i >= 0
  /\ resp' = [op |-> "GetItem", itemIndex |-> i, result |-> GetItem(server, dir, i)]
  /\ UNCHANGED <<par, builder, dir, ledger, added, addOk, lastErr, phase, server, uniq, mem, net, call>>

\* The addresses requested; the last one is too short to be an address.
RequestedAddresses == {AddrA, AddrB, AddrC, <<17>>}
Cursors == {"", "next"}

RequestHistory(address, start) ==
  /\ phase = "serving"
  /\ resp = NoResp
  /\ resp' = [op |-> "GetHistory", address |-> address, start |-> start,
              result |-> GetHistory(server, dir, address, start)]
  /\ UNCHANGED <<par, builder, dir, ledger, added, addOk, lastErr, phase, server, uniq, mem, net, call>>

\* The client takes the result; the Server keeps nothing of a request.
TakeResponse ==
  /\ resp # NoResp
  /\ resp' = NoResp
  /\ UNCHANGED <<par, builder, dir, ledger, added, addOk, lastErr, phase, server, uniq, mem, net, call>>

Next ==
  \/ \E block \in InputBlocks : AddBlock(block)
  \/ \E failAt \in 0..Len(CloseSteps) : CloseBuilder(failAt)
  \/ OpenServer
  \/ \E i \in RequestedItems : RequestItem(i)
  \/ \E a \in RequestedAddresses, start \in Cursors : RequestHistory(a, start)
  \/ TakeResponse

Spec == Init /\ [][Next]_vars

(***************************************************************************)
(* The list writer on its own: a Uniq is created, sorted records are       *)
(* written to it, and it is closed.                                        *)
(***************************************************************************)
\* (keyLen, valueLen, offsetLen) given to NewUniq.
UniqParams == {<<1, 1, 1>>, <<1, 2, 2>>, <<1, 4, 4>>, <<2, 2, 1>>}

\* The records offered to Write; the last one has a wrong length.
UniqRecords(u) ==
  {LEBytes(k, u.keyLen) \o LEBytes(v, u.valueLen) : k \in {1, 2}, v \in {1, 2}}
    \cup {LEBytes(1, u.keyLen)}

InitUniq ==
  /\ \E q \in UniqParams :
       uniq = [phase |-> "open", u |-> NewUniq(q[1], q[2], q[3]),
               written |-> <<>>, err |-> "nil", looked |-> NoResp]
  /\ par = ParWide
  /\ builder = Fields(NewBuilder(ParWide), BuilderFields)
  /\ dir = Fields(NewBuilder(ParWide), FileFields) @@ AddressFiles(ParWide)
  /\ ledger = <<>>
  /\ added = 0
  /\ addOk = TRUE
  /\ lastErr = "nil"
  /\ phase = "idle"
  /\ server = NoServer
  /\ resp = NoResp
  /\ mem = NoMappings
  /\ net = NoDownload
  /\ call = NoCall

\* Uniq.Write of a record that keeps the stream ascending.
WriteRecord(b) ==
  /\ uniq.phase = "open"
  /\ Len(uniq.written) < MaxRecords
  /\ Len(uniq.written) > 0 => ~BytesLess(b, uniq.written[Len(uniq.written)])
  /\ LET r == UniqWrite(uniq.u, b)
     IN  uniq' = [uniq EXCEPT !.u = r.uniq, !.err = r.err,
                              !.written = IF r.err = "nil" THEN Append(@, b) ELSE @]
  /\ UNCHANGED cacheVars

CloseUniq ==
  /\ uniq.phase = "open"
  /\ uniq' = [uniq EXCEPT !.u = UniqClose(@), !.phase = "closed", !.err = "nil"]
  /\ UNCHANGED cacheVars

\* The keys looked up: those of the records offered, and one never written.
UniqKeys(u) == {LEBytes(k, u.keyLen) : k \in {1, 2, 3}}

\* UniqMap.Lookup on the closed files.
LookupKey(key) ==
  /\ uniq.phase = "closed"
  /\ uniq' = [uniq EXCEPT !.looked = [key |-> key, result |-> UniqMapLookup(uniq.u, key)]]
  /\ UNCHANGED cacheVars

NextUniq ==
  \/ \E b \in UniqRecords(uniq.u) : WriteRecord(b)
  \/ CloseUniq
  \/ \E key \in UniqKeys(uniq.u) : LookupKey(key)

SpecUniq == InitUniq /\ [][NextUniq]_vars

\* The values of a list of the indices writer, one per valueLen bytes.
ListValues(list, valueLen) ==
  [k \in 1..(Len(list) \div valueLen) |-> SubSeq(list, (k - 1) * valueLen + 1, k * valueLen)]

(***************************************************************************)
(* C10: for an ascending stream of records, exact repeats included, the    *)
(* list stored for each key holds every distinct value written for that    *)
(* key exactly once, and nothing else.                                     *)
(***************************************************************************)
C10_ListsDeduplicated ==
  uniq.phase = "closed" =>
    LET u == uniq.u
        recs == {uniq.written[i] : i \in 1..Len(uniq.written)}
    IN  \A key \in {Slice(r, 0, u.keyLen) : r \in recs} :
          LET at == {j \in 1..Len(u.fm) : Slice(u.fm[j], 0, u.keyLen) = key}
              written == {Slice(r, u.keyLen, Len(r)) : r \in {x \in recs : Slice(x, 0, u.keyLen) = key}}
          IN  /\ Cardinality(at) = 1
              /\ \A j \in at :
                   LET list == ListValues(u.indices[2 * j], u.valueLen)
                   IN  /\ Len(u.indices[2 * j]) = Len(list) * u.valueLen
                       /\ \A v \in written :
                            Cardinality({k \in 1..Len(list) : list[k] = v}) = 1
                       /\ \A k \in 1..Len(list) : list[k] \in written

\* The values written for key, each distinct pair once, in write order.
WrittenValues(key) ==
  LET recs == uniq.written
      Counts(i) == /\ Slice(recs[i], 0, uniq.u.keyLen) = key
                   /\ (i = 1 \/ recs[i] # recs[i - 1])
      kept == SelectSeq([i \in 1..Len(recs) |-> i], Counts)
  IN  [j \in 1..Len(kept) |-> Slice(recs[kept[j]], uniq.u.keyLen, Len(recs[kept[j]]))]

\* The byte position at which the n-th write to indices starts.
IndicesPosition(n) == Len(Concat(SubSeq(uniq.u.indices, 1, n - 1)))

(***************************************************************************)
(* C11: list round trip.  After Close, for every key written: the count in *)
(* front of its list is the number of values of the list, the offset       *)
(* recorded for the key is the byte position of that count, and            *)
(* UniqMap.Lookup(key) returns the deduplicated values written for the     *)
(* key, in write order.                                                    *)
(***************************************************************************)
C11_ListRoundTrip ==
  uniq.phase = "closed" =>
    LET u == uniq.u
    IN  \A key \in {Slice(uniq.written[i], 0, u.keyLen) : i \in 1..Len(uniq.written)} :
          \E j \in 1..Len(u.fm) :
            /\ Slice(u.fm[j], 0, u.keyLen) = key
            /\ Uvarint(u.indices[2 * j - 1]).v = Len(u.indices[2 * j]) \div u.valueLen
            /\ Uint64(Slice(u.fm[j], u.keyLen, Len(u.fm[j]))) = IndicesPosition(2 * j - 1)
            /\ UniqMapLookup(u, key).err = "nil"
            /\ UniqMapLookup(u, key).values = ConcatValues(WrittenValues(key), u.valueLen)

\* A closed Uniq that was given a repeated pair and a key with two values.
C10_Witness ==
  /\ uniq.phase = "closed"
  /\ \E i \in 1..(Len(uniq.written) - 1) : uniq.written[i] = uniq.written[i + 1]
  /\ \E j \in 1..Len(uniq.u.fm) : Len(uniq.u.indices[2 * j]) = 2 * uniq.u.valueLen

(***************************************************************************)
(* The ledger as the claims speak of it: the items in block order, each    *)
(* with its block, its position in the block and its kind.                 *)
(***************************************************************************)
NumItems(block) == Len(block.MinerPayouts) + Len(block.Transactions)

\* The items of the k-th block added (k counts from 1).
ItemsOfBlock(k) ==
  LET block == BlockOf[ledger[k]]
  IN  [j \in 1..NumItems(block) |->
         [block |-> k - 1, pos |-> j - 1, payout |-> j <= Len(block.MinerPayouts)]]

RECURSIVE LedgerItemsIn(_, _)
LedgerItemsIn(lo, hi) ==
  IF lo > hi THEN <<>>
  ELSE IF lo = hi THEN ItemsOfBlock(lo)
  ELSE LET mid == (lo + hi) \div 2
       IN  LedgerItemsIn(lo, mid) \o LedgerItemsIn(mid + 1, hi)

\* Item i of the ledger is LedgerItems[i + 1].
LedgerItems == LedgerItemsIn(1, Len(ledger))

ItemBlock(e) == BlockOf[ledger[e.block + 1]]

ItemObject(e) ==
  IF e.payout THEN ItemBlock(e).MinerPayouts[e.pos + 1]
  ELSE ItemBlock(e).Transactions[e.pos + 1 - Len(ItemBlock(e).MinerPayouts)]

\* The canonical encoding of the item, and the bytes stored for it.
ItemEncoding(e) == IF e.payout THEN MarshalPayout(ItemObject(e)) ELSE MarshalTx(ItemObject(e))
ItemStored(e) == IF e.payout THEN ItemEncoding(e) ELSE SnappyEncode(ItemEncoding(e))

\* The addresses the item mentions, in the order Add visits them.
ItemAddresses(e) ==
  IF e.payout THEN <<ItemObject(e).UnlockHash>>
  ELSE ItemObject(e).Inputs \o ItemObject(e).Outputs

Mentions(e, a) == \E j \in 1..Len(ItemAddresses(e)) : ItemAddresses(e)[j] = a

\* The running sums base, base + sizes[lo], ... : one entry per index lo..hi.
RECURSIVE RunningSums(_, _, _, _)
RunningSums(sizes, lo, hi, base) ==
  IF lo > hi THEN <<>>
  ELSE IF lo = hi THEN <<base>>
  ELSE LET mid == (lo + hi) \div 2
           left == RunningSums(sizes, lo, mid, base)
       IN  left \o RunningSums(sizes, mid + 1, hi, left[Len(left)] + sizes[mid])

\* The index of the first item of each block.
BlockStarts ==
  RunningSums([k \in 1..Len(ledger) |-> NumItems(BlockOf[ledger[k]])], 1, Len(ledger), 0)

\* The bundle was built by Add calls that all returned nil, and is served.
ServingBuilt == phase = "serving" /\ addOk /\ Len(ledger) > 0

(***************************************************************************)
(* C1: after a non-empty sequence of successful Adds and Close, GetItem(i) *)
(* returns for every item i the bytes Add appended for it (raw for a       *)
(* payout, compressed for a transaction), with NO_COMPRESSION exactly for  *)
(* a payout and SNAPPY exactly for a transaction.                          *)
(***************************************************************************)
C1_ItemBytes ==
  ServingBuilt =>
    LET items == LedgerItems
    IN  \A i \in 1..Len(items) :
          LET r == GetItem(server, dir, i - 1)
          IN  /\ r.err = "nil"
              /\ r.item.Data = ItemStored(items[i])
              /\ r.item.Compression = (IF items[i].payout THEN NO_COMPRESSION ELSE SNAPPY)

(***************************************************************************)
(* C2: for every item i of a built bundle the proof GetItem(i) returns     *)
(* verifies the item's leaf against the Merkle root of its block, with the *)
(* Index and NumLeaves GetItem reports; the proof of the only item of a    *)
(* block is empty.  VerifyProof hashes the data it is given as a leaf, so  *)
(* the leaf hash of item i is presented by its pre-image, the canonical    *)
(* encoding.                                                               *)
(***************************************************************************)
C2_ProofVerifies ==
  ServingBuilt =>
    LET items == LedgerItems
    IN  \A i \in 1..Len(items) :
          LET r == GetItem(server, dir, i - 1)
          IN  /\ r.err = "nil"
              /\ VerifyProof(BlockMerkleRoot(ItemBlock(items[i])), ItemEncoding(items[i]),
                             r.item.MerkleProof, r.item.Index, r.item.NumLeaves)
              /\ NumItems(ItemBlock(items[i])) = 1 => r.item.MerkleProof = <<>>

(***************************************************************************)
(* C3: for every built bundle, empty blocks included, GetItem(i) reports   *)
(* the block that contains item i, the item's position in that block and   *)
(* the number of items of that block.                                      *)
(***************************************************************************)
C3_BlockOfItem ==
  ServingBuilt =>
    LET items == LedgerItems
    IN  \A i \in 1..Len(items) :
          LET r == GetItem(server, dir, i - 1)
          IN  /\ r.err = "nil"
              /\ r.item.Block = items[i].block
              /\ r.item.Index = items[i].pos
              /\ r.item.NumLeaves = NumItems(ItemBlock(items[i]))

(***************************************************************************)
(* C4: after a build GetHistory(a) contains every item that mentions a,    *)
(* however many there are.                                                 *)
(***************************************************************************)
C4_HistoryComplete ==
  ServingBuilt =>
    LET items == LedgerItems
    IN  \A a \in Addresses :
          LET h == GetHistory(server, dir, a, "")
          IN  \A i \in 1..Len(items) :
                Mentions(items[i], a) =>
                  \E k \in 1..Len(h.history) :
                    /\ h.history[k].Block = items[i].block
                    /\ h.history[k].Index = items[i].pos

(***************************************************************************)
(* C5: every item GetHistory(a) returns mentions the full address a, also  *)
(* when another address of the ledger shares a's first addressPrefixLen    *)
(* bytes.                                                                  *)
(***************************************************************************)
C5_HistoryMentionsAddress ==
  ServingBuilt =>
    LET items == LedgerItems
    IN  \A a \in Addresses :
          LET h == GetHistory(server, dir, a, "")
          IN  \A k \in 1..Len(h.history) :
                \E i \in 1..Len(items) :
                  /\ h.history[k].Block = items[i].block
                  /\ h.history[k].Index = items[i].pos
                  /\ Mentions(items[i], a)

(***************************************************************************)
(* The list the address map holds for an address, as GetHistory reads it.  *)
(***************************************************************************)
StoredList(a) ==
  MultiMapLookup(dir.parameters, dir.addressesFastmapData, dir.addressesIndices,
                 SubSeq(a, 1, par.AddressPrefixLen))

\* The k-th entry (k counts from 1) of a list of wire indices, and its value.
StoredBytes(values, k) == SubSeq(values, (k - 1) * par.OffsetIndexLen + 1, k * par.OffsetIndexLen)
StoredWire(values, k) == Uint64(StoredBytes(values, k))

(***************************************************************************)
(* C6, as stated: the items GetHistory returns come in ascending order of  *)
(* their numeric item index, whatever the number of items.                 *)
(***************************************************************************)
C6_AscendingNumeric ==
  ServingBuilt =>
    \A a \in Addresses :
      LET h == GetHistory(server, dir, a, "")
          values == StoredList(a).values
      IN  \A k \in 1..(Len(h.history) - 1) :
            StoredWire(values, k) - 1 < StoredWire(values, k + 1) - 1

(***************************************************************************)
(* C6, amended: the items GetHistory returns are the items of the stored   *)
(* wire indices, taken in ascending byte-wise order of their little-endian *)
(* encoding on offsetIndexLen bytes.                                       *)
(***************************************************************************)
C6_AscendingBytes ==
  ServingBuilt =>
    \A a \in Addresses :
      LET h == GetHistory(server, dir, a, "")
          values == StoredList(a).values
      IN  /\ \A k \in 1..Len(h.history) :
               h.history[k] = GetItem(server, dir, StoredWire(values, k) - 1).item
          /\ \A k \in 1..(Len(h.history) - 1) :
               BytesLess(StoredBytes(values, k), StoredBytes(values, k + 1))

\* Two items are returned whose numeric indices descend.
C6_Witness ==
  /\ ServingBuilt
  /\ \E a \in Addresses :
       LET h == GetHistory(server, dir, a, "")
           values == StoredList(a).values
       IN  /\ Len(h.history) = 2
           /\ StoredWire(values, 1) > StoredWire(values, 2)

(***************************************************************************)
(* C7: GetHistory answers with the items of the first                      *)
(* min(n, MAX_HISTORY_SIZE) of the n stored entries, always with an empty  *)
(* next cursor, and the start cursor it is given has no effect.            *)
(***************************************************************************)
C7_HistoryCapped ==
  (phase = "serving" /\ resp.op = "GetHistory" /\ Len(resp.address) = HashSize) =>
    LET l == StoredList(resp.address)
        n == Len(l.values) \div par.OffsetIndexLen
        m == IF n < MAX_HISTORY_SIZE THEN n ELSE MAX_HISTORY_SIZE
        fetched == [k \in 1..m |-> GetItem(server, dir, StoredWire(l.values, k) - 1)]
    IN  /\ resp.result.next = ""
        /\ \A start \in Cursors : resp.result = GetHistory(server, dir, resp.address, start)
        /\ (l.found /\ l.err = "nil" /\ \A k \in 1..m : fetched[k].err = "nil") =>
             /\ resp.result.err = "nil"
             /\ resp.result.history = [k \in 1..m |-> fetched[k].item]

\* A list of three entries was stored and two items came back.
C7_Witness ==
  /\ phase = "serving" /\ resp.op = "GetHistory" /\ Len(resp.address) = HashSize
  /\ Len(StoredList(resp.address).values) = 3 * par.OffsetIndexLen
  /\ Len(resp.result.history) = MAX_HISTORY_SIZE
  /\ resp.result.next = ""

(***************************************************************************)
(* The address records in the order Add emits them: one per address of     *)
(* each item, with the index of the item that emits it.                    *)
(***************************************************************************)
RECURSIVE EmittersIn(_, _, _)
EmittersIn(items, lo, hi) ==
  IF lo > hi THEN <<>>
  ELSE IF lo = hi
       THEN [j \in 1..Len(ItemAddresses(items[lo])) |->
               [item |-> lo - 1, address |-> ItemAddresses(items[lo])[j]]]
  ELSE LET mid == (lo + hi) \div 2
       IN  EmittersIn(items, lo, mid) \o EmittersIn(items, mid + 1, hi)

(***************************************************************************)
(* C8: when every Add succeeded, every wire item index handed to the       *)
(* address map decodes (minus one) to the index of the item that emitted   *)
(* it, which lies in [0, nitems), and the block locations hold the true    *)
(* item index of each block's first payout and first transaction.          *)
(***************************************************************************)
C8_WireIndicesValid ==
  (addOk /\ Len(ledger) > 0) =>
    LET items == LedgerItems
        emitters == EmittersIn(items, 1, Len(items))
        starts == BlockStarts
        w == par.OffsetIndexLen
    IN  /\ phase = "building" =>
             /\ Len(builder.addresses) = Len(emitters)
             /\ \A k \in 1..Len(emitters) :
                  LET index == Uint64(RecValue(par, builder.addresses[k])) - 1
                  IN  /\ index = emitters[k].item
                      /\ index >= 0 /\ index < Len(items)
        /\ \A k \in 1..Len(ledger) :
             /\ Uint64(SubSeq(dir.blockLocations, 2 * w * (k - 1) + 1, 2 * w * (k - 1) + w))
                  = starts[k]
             /\ Uint64(SubSeq(dir.blockLocations, 2 * w * (k - 1) + w + 1, 2 * w * k))
                  = starts[k] + Len(BlockOf[ledger[k]].MinerPayouts)

(***************************************************************************)
(* C9: Add returns "too large offset" exactly when the blockchain file has *)
(* grown beyond 2^(8*offsetLen) - 1 bytes, and when every Add succeeded    *)
(* every entry of the offsets file decodes to the true byte offset of its  *)
(* item.  The offsets file is written by Add alone, so its entries are     *)
(* compared while the Builder is open, after each Add.                     *)
(***************************************************************************)
C9_OffsetOverflow ==
  /\ added > 0 =>
       ((lastErr = "too large offset") <=> (Len(dir.blockchain) > 2^(8 * par.OffsetLen) - 1))
  /\ (addOk /\ phase = "building") =>
       LET items == LedgerItems
           sizes == [i \in 1..Len(items) |-> Len(ItemStored(items[i]))]
           offsets == RunningSums(sizes, 1, Len(items), 0)
       IN  /\ Len(dir.offsets) = Len(items) * par.OffsetLen
           /\ \A i \in 1..Len(items) :
                Uint64(SubSeq(dir.offsets, (i - 1) * par.OffsetLen + 1, i * par.OffsetLen))
                  = offsets[i]

\* An Add has just failed on a file one-byte offsets cannot address.
C9_Witness ==
  /\ lastErr = "too large offset"
  /\ par.OffsetLen = 1
  /\ Len(dir.blockchain) > 255

C14_BlockLocationsOrdered ==
  (phase = "building" /\ added > 0 /\ addOk) =>
    LET w == par.OffsetIndexLen
        nblocks == Len(ledger)
        nitems == Len(dir.offsets) \div par.OffsetLen
        firstPayoutIdx(k) ==
          IF k > nblocks THEN nitems
          ELSE Uint64(SubSeq(dir.blockLocations, 2 * w * (k - 1) + 1, 2 * w * (k - 1) + w))
        firstTxIdx(k) ==
          Uint64(SubSeq(dir.blockLocations, 2 * w * (k - 1) + w + 1, 2 * w * k))
    IN  /\ firstPayoutIdx(1) = 0
        /\ builder.offsetIndex = nitems
        /\ \A k \in 1..nblocks :
             /\ firstPayoutIdx(k) <= firstTxIdx(k)
             /\ firstTxIdx(k) <= firstPayoutIdx(k + 1)
             /\ firstTxIdx(k) - firstPayoutIdx(k) = Len(BlockOf[ledger[k]].MinerPayouts)
             /\ firstPayoutIdx(k + 1) - firstTxIdx(k) = Len(BlockOf[ledger[k]].Transactions)

\* The entry of blockLocations for the k-th block added (k counts from 1).
StoredFirstPayoutIdx(k) ==
  LET w == par.OffsetIndexLen
  IN  Uint64(SubSeq(dir.blockLocations, 2 * w * (k - 1) + 1, 2 * w * (k - 1) + w))

StoredFirstTxIdx(k) ==
  LET w == par.OffsetIndexLen
  IN  Uint64(SubSeq(dir.blockLocations, 2 * w * (k - 1) + w + 1, 2 * w * k))

NothingMapped ==
  [x \in DOMAIN dir |-> IF x = "parameters" THEN dir.parameters ELSE <<>>]

(***************************************************************************)
(* C16: GetItem(i) returns ErrTooLargeIndex for every i >= nitems, also on *)
(* a bundle without items, and it does so before any read of a mapped      *)
(* region (the answer is the same over regions that hold no byte); for     *)
(* i = nitems - 1 it returns nil and the payload is the blockchain file    *)
(* from the item's stored offset to the file's end.                        *)
(***************************************************************************)
C16_TooLargeIndex ==
  (phase = "serving" /\ resp.op = "GetItem") =>
    LET i == resp.itemIndex
        w == server.offsetLen
    IN  /\ i >= server.nitems =>
              /\ resp.result.err = "ErrTooLargeIndex"
              /\ GetItem(server, NothingMapped, i) = resp.result
        /\ i = server.nitems - 1 =>
              /\ resp.result.err = "nil"
              /\ resp.result.item.Data =
                    Slice(dir.blockchain, ReadUint(dir.offsets, i * w, (i + 1) * w),
                          Len(dir.blockchain))

\* The index one past the last item of a bundle with items has been asked.
C16_Witness ==
  /\ phase = "serving" /\ resp.op = "GetItem"
  /\ server.nitems > 0
  /\ resp.itemIndex = server.nitems
  /\ resp.result.err = "ErrTooLargeIndex"

(***************************************************************************)
(* C17: whatever the mapped files hold, a GetItem or GetHistory request    *)
(* ends with nil or with an error returned to the caller, never with a     *)
(* slice expression out of range (a read outside the mapped regions, which *)
(* in Go is a run-time panic of the serving process).                      *)
(***************************************************************************)
C17_CorruptionReported ==
  (phase = "serving" /\ resp.op \in {"GetItem", "GetHistory"}) =>
    resp.result.err # "panic"

(***************************************************************************)
(* Construction and lifetime.  NewBuilder is called with parameters that   *)
(* may break the constraints; NewServer is called on a directory whose     *)
(* parameters.json holds them; the Server is closed, possibly more than    *)
(* once, and finalized.                                                    *)
(***************************************************************************)
\* The largest offsetLen NewBuilder takes.
MaxOffsetLen == 8

\* The most entries of offsets and of blockLocations in the directory.
MaxEntries == 2

FullParams(offsetLen, offsetIndexLen, addressPrefixLen, addressFastmapPrefixLen, addressOffsetLen) ==
  [OffsetLen |-> offsetLen, OffsetIndexLen |-> offsetIndexLen,
   AddressPrefixLen |-> addressPrefixLen,
   AddressFastmapPrefixLen |-> addressFastmapPrefixLen,
   AddressOffsetLen |-> addressOffsetLen]

\* Parameter sets on both sides of each constraint.
ParamSets ==
  {FullParams(ol, il, pl, fl, al) :
     ol \in {1, MaxOffsetLen, MaxOffsetLen + 1}, il \in {1, MaxOffsetLen + 1},
     pl \in {1, 2}, fl \in {1, 2, 3}, al \in {1, MaxOffsetLen + 1}}

\* The errors of fastmap.NewMultiMapWriter and emsort.New: none for any
\* parameters.
NewMultiMapWriterErr(p) == "nil"

\* The error NewBuilder returns.
NewBuilderErr(p) ==
  IF NewMultiMapWriterErr(p) # "nil" THEN "fastmap.NewMultiMapWriter"
  ELSE IF p.OffsetLen > MaxOffsetLen THEN "too large offsetLen"
  ELSE "nil"

\* The lengths NewBuilder stores in the Builder it returns.
BuilderParams(p) ==
  [constructed |-> TRUE, bufferSize |-> BufferSize(p),
   offsetLen |-> p.OffsetLen, offsetIndexLen |-> p.OffsetIndexLen,
   addressRecordSize |-> p.AddressPrefixLen + p.OffsetIndexLen,
   addressPrefixLen |-> p.AddressPrefixLen]

NoBuilder == [constructed |-> FALSE]

\* A directory with n entries in offsets (and extra bytes after them) and
\* m entries in blockLocations (and extraLoc bytes after them).
Directory(p, n, extra, m, extraLoc) ==
  [parameters |-> p, blockchain |-> Zeros(n), leavesHashes |-> Zeros(n),
   headers |-> Zeros(m),
   offsets |-> Zeros(n * p.OffsetLen + extra),
   blockLocations |-> Zeros(2 * m * p.OffsetIndexLen + extraLoc),
   addressesFastmapData |-> <<>>, addressesIndices |-> <<>>]

InitLifetime ==
  /\ \E p \in ParamSets, n \in 1..MaxEntries, m \in 1..MaxEntries,
        extra \in {0, 1}, extraLoc \in {0, 1} :
       /\ par = p
       /\ dir = Directory(p, n, extra, m, extraLoc)
  /\ builder = NoBuilder
  /\ ledger = <<>>
  /\ added = 0
  /\ addOk = TRUE
  /\ lastErr = "nil"
  /\ phase = "config"
  /\ server = NoServer
  /\ resp = NoResp
  /\ uniq = NoUniq
  /\ mem = NoMappings
  /\ net = NoDownload
  /\ call = NoCall

\* NewBuilder(par) on an empty directory of its own.
ConstructBuilder ==
  /\ builder = NoBuilder
  /\ lastErr = "nil"
  /\ LET err == NewBuilderErr(par)
     IN  /\ lastErr' = err
         /\ builder' = IF err = "nil" THEN BuilderParams(par) ELSE builder
  /\ UNCHANGED <<par, dir, ledger, added, addOk, phase, server, resp, uniq, mem, net, call>>

\* NewServer(dir).  The finalizer is set only when a Server is returned;
\* on an error the Server built so far is dropped with what it has mapped.
StartServer(failAt) ==
  /\ phase = "config"
  /\ LET m == MapFiles(failAt)
         s == NewServer(dir)
         err == IF m.err # "nil" THEN m.err ELSE s.err
     IN  /\ mem' = m.mem
         /\ server' = IF err = "nil" THEN s ELSE [NoServer EXCEPT !.err = err]
         /\ phase' = IF err = "nil" THEN "open" ELSE "failed"
  /\ UNCHANGED <<par, builder, dir, ledger, added, addOk, lastErr, resp, uniq, net, call>>

\* An explicit Server.Close, the first or a later one.
CloseServer(failAt) ==
  /\ phase \in {"open", "closed"}
  /\ LET r == ServerClose(mem, 1, failAt)
     IN  /\ mem' = r.mem
         /\ resp' = [op |-> "Close", err |-> r.err]
  /\ phase' = "closed"
  /\ UNCHANGED <<par, builder, dir, ledger, added, addOk, lastErr, server, uniq, net, call>>

\* The Server has become unreachable and its finalizer, Close, runs once.
Finalize(failAt) ==
  /\ phase \in {"open", "closed"}
  /\ mem' = ServerClose(mem, 1, failAt).mem
  /\ phase' = "collected"
  /\ UNCHANGED <<par, builder, dir, ledger, added, addOk, lastErr, server, resp, uniq, net, call>>

NextLifetime ==
  \/ ConstructBuilder
  \/ \E failAt \in 0..Len(Regions) : StartServer(failAt)
  \/ \E failAt \in 0..Len(Regions) : CloseServer(failAt)
  \/ \E failAt \in 0..Len(Regions) : Finalize(failAt)

SpecLifetime == InitLifetime /\ [][NextLifetime]_vars

\* The parameters break one of the constraints.
Violates(p) ==
  \/ p.AddressFastmapPrefixLen > p.AddressPrefixLen
  \/ p.OffsetLen > MaxOffsetLen
  \/ p.OffsetIndexLen > MaxOffsetLen
  \/ p.AddressOffsetLen > MaxOffsetLen

(***************************************************************************)
(* C18: with parameters that break one of the constraints                  *)
(* AddressFastmapPrefixLen <= AddressPrefixLen, OffsetLen <= 8,            *)
(* OffsetIndexLen <= 8, AddressOffsetLen <= 8, NewBuilder returns no       *)
(* Builder and NewServer returns no Server.                                *)
(***************************************************************************)
C18_ParametersValidated ==
  Violates(par) => /\ ~builder.constructed
                   /\ phase \notin {"open", "closed", "collected"}

(***************************************************************************)
(* C20: no region is unmapped twice, and once Close has returned, or the   *)
(* finalizer has run, or NewServer has failed, no region mapped by         *)
(* NewServer is still mapped.                                              *)
(***************************************************************************)
C20_UnmappedExactlyOnce ==
  /\ \A r \in RegionSet : mem[r].unmaps <= 1
  /\ phase \in {"failed", "closed", "collected"} =>
       \A r \in RegionSet : mem[r].state # "mapped"

(***************************************************************************)
(* Concurrent requests.  A served bundle is read by several goroutines;    *)
(* each request advances by the steps between which the code holds a value *)
(* in its scratch buffer tmp.  resp holds the requests in flight (threads) *)
(* and the scratch buffers.                                                *)
(***************************************************************************)
\* The number of goroutines calling the Server.
MaxThreads == 2

Threads == 1..MaxThreads

\* A variant of ScratchOf in which every request uses one buffer.
ScratchShared(t) == 1

\* var tmp [8]byte: the scratch buffer is a local of the call, one per
\* request.
ScratchOf(t) == t

NoThread ==
  [op |-> "none", pc |-> "idle", itemIndex |-> 0, address |-> <<>>,
   dataStart |-> 0, dataEnd |-> 0, values |-> <<>>, size |-> 0, k |-> 0,
   history |-> <<>>, result |-> [err |-> "none"]]

\* The Builder after Add of the named blocks in order.
RECURSIVE AddAll(_, _, _)
AddAll(p, b, names) ==
  IF names = <<>> THEN b
  ELSE AddAll(p, Add(p, b, BlockOf[Head(names)]).builder, Tail(names))

\* The ledgers and parameters of the bundles served.
ServedLedgers == {<<"payTxA", "twoTx">>, <<"dup", "payA">>}
ServedParams == {ParWide, ParShort}

InitConcurrent ==
  /\ \E p \in ServedParams, names \in ServedLedgers :
       LET b == AddAll(p, NewBuilder(p), names)
       IN  /\ par = p
           /\ ledger = names
           /\ builder = [Fields(b, BuilderFields) EXCEPT !.addresses = <<>>]
           /\ dir = BuilderClose(p, b, 0).files @@ Fields(b, FileFields) @@ AddressFiles(p)
           /\ added = Len(names)
  /\ server = NewServer(dir)
  /\ mem = MapFiles(0).mem
  /\ net = NoDownload
  /\ call = NoCall
  /\ addOk = TRUE
  /\ lastErr = "nil"
  /\ phase = "serving"
  /\ uniq = NoUniq
  /\ resp = [threads |-> [t \in Threads |-> NoThread],
             scratch |-> [t \in Threads |-> Zeros(8)]]

servedVars == <<par, builder, dir, ledger, added, addOk, lastErr, phase, server, uniq, mem, net, call>>

\* The request of thread t has ended with result r.
Done(th, r) == [th EXCEPT !.pc = "done", !.result = r]

\* GetItem(i) up to the copy of the item's offset into tmp.
ItemStart(t, i) ==
  /\ resp.threads[t].pc = "idle"
  /\ LET w == server.offsetLen
         start == i * w
         th == [NoThread EXCEPT !.op = "GetItem", !.itemIndex = i]
     IN  resp' =
           IF TooLargeIndex(server, i)
           THEN [resp EXCEPT !.threads[t] = Done(th, [err |-> "ErrTooLargeIndex", item |-> NoItem]),
                             !.scratch[ScratchOf(t)] = Zeros(8)]
           ELSE IF ~InBounds(dir.offsets, start, start + w)
           THEN [resp EXCEPT !.threads[t] = Done(th, Panic),
                             !.scratch[ScratchOf(t)] = Zeros(8)]
           ELSE [resp EXCEPT !.threads[t] = [th EXCEPT !.pc = "haveStart"],
                             !.scratch[ScratchOf(t)] =
                                Copy(Zeros(8), Slice(dir.offsets, start, start + w))]
  /\ UNCHANGED servedVars

\* dataStart is decoded from tmp; the next offset is copied into tmp unless
\* the item is the last.
ItemDecodeStart(t) ==
  /\ resp.threads[t].pc = "haveStart"
  /\ LET th == resp.threads[t]
         w == server.offsetLen
         start == th.itemIndex * w
         dataStart == Uint64(resp.scratch[ScratchOf(t)])
     IN  resp' =
           IF th.itemIndex # server.nitems - 1
           THEN [resp EXCEPT !.threads[t] = [th EXCEPT !.dataStart = dataStart, !.pc = "haveEnd"],
                             !.scratch[ScratchOf(t)] =
                                Copy(@, Slice(dir.offsets, start + w, start + 2 * w))]
           ELSE [resp EXCEPT !.threads[t] = [th EXCEPT !.dataStart = dataStart,
                                                       !.dataEnd = Len(dir.blockchain),
                                                       !.pc = "haveData"]]
  /\ UNCHANGED servedVars

\* dataEnd is decoded from tmp.
ItemDecodeEnd(t) ==
  /\ resp.threads[t].pc = "haveEnd"
  /\ resp' = [resp EXCEPT !.threads[t] =
                [@ EXCEPT !.dataEnd = Uint64(resp.scratch[ScratchOf(t)]), !.pc = "haveData"]]
  /\ UNCHANGED servedVars

\* The rest of GetItem.
ItemFinish(t) ==
  /\ resp.threads[t].pc = "haveData"
  /\ LET th == resp.threads[t]
     IN  resp' = [resp EXCEPT !.threads[t] =
                    Done(th, GetItemData(server, dir, th.itemIndex, th.dataStart, th.dataEnd))]
  /\ UNCHANGED servedVars

\* GetHistory(address, "") up to the loop over the values.
HistoryStart(t, address) ==
  /\ resp.threads[t].pc = "idle"
  /\ LET th == [NoThread EXCEPT !.op = "GetHistory", !.address = address]
         l == MultiMapLookup(dir.parameters, dir.addressesFastmapData, dir.addressesIndices,
                             Slice(address, 0, server.addressPrefixLen))
     IN  resp' =
           IF Len(address) # HashSize
           THEN [resp EXCEPT !.threads[t] =
                   Done(th, [history |-> <<>>, next |-> "", err |-> "size of address"])]
           ELSE IF l.err # "nil" \/ ~l.found
           THEN [resp EXCEPT !.threads[t] =
                   Done(th, [history |-> <<>>, next |-> "", err |-> l.err])]
           ELSE [resp EXCEPT !.threads[t] =
                   [th EXCEPT !.values = l.values, !.pc = "loop",
                              !.size = HistorySize(Len(l.values) \div server.offsetIndexLen)],
                             !.scratch[ScratchOf(t)] = Zeros(8)]
  /\ UNCHANGED servedVars

\* The loop test of GetHistory and the copy of the next value into tmp.
HistoryCopy(t) ==
  /\ resp.threads[t].pc = "loop"
  /\ LET th == resp.threads[t]
         w == server.offsetIndexLen
     IN  resp' =
           IF th.k >= th.size
           THEN [resp EXCEPT !.threads[t] =
                   Done(th, [history |-> th.history, next |-> "", err |-> "nil"])]
           ELSE [resp EXCEPT !.threads[t] = [th EXCEPT !.pc = "haveIndex"],
                             !.scratch[ScratchOf(t)] =
                                Copy(@, Slice(th.values, th.k * w, (th.k + 1) * w))]
  /\ UNCHANGED servedVars

\* The wire index is decoded from tmp and the item fetched.
HistoryItem(t) ==
  /\ resp.threads[t].pc = "haveIndex"
  /\ LET th == resp.threads[t]
         itemIndex == Uint64(resp.scratch[ScratchOf(t)]) - 1
         r == GetItem(server, dir, itemIndex)
     IN  resp' =
           IF r.err # "nil"
           THEN [resp EXCEPT !.threads[t] =
                   Done(th, [history |-> <<>>, next |-> "", err |-> r.err])]
           ELSE [resp EXCEPT !.threads[t] =
                   [th EXCEPT !.history = Append(@, r.item), !.k = @ + 1, !.pc = "loop"]]
  /\ UNCHANGED servedVars

\* The caller has its result; the goroutine may call again.
TakeResult(t) ==
  /\ resp.threads[t].pc = "done"
  /\ resp' = [resp EXCEPT !.threads[t] = NoThread]
  /\ UNCHANGED servedVars

NextConcurrent ==
  \E t \in Threads :
    \/ \E i \in {0, server.nitems - 1, server.nitems} : ItemStart(t, i)
    \/ ItemDecodeStart(t)
    \/ ItemDecodeEnd(t)
    \/ ItemFinish(t)
    \/ \E a \in {AddrA, AddrC, <<17>>} : HistoryStart(t, a)
    \/ HistoryCopy(t)
    \/ HistoryItem(t)
    \/ TakeResult(t)

SpecConcurrent == InitConcurrent /\ [][NextConcurrent]_vars

\* What the finished request of a thread returns when it runs alone.
Alone(th) ==
  IF th.op = "GetItem" THEN GetItem(server, dir, th.itemIndex)
  ELSE GetHistory(server, dir, th.address, "")

(***************************************************************************)
(* C19: in every interleaving of the steps of concurrent GetItem and       *)
(* GetHistory requests, each finished request has the result it has when   *)
(* it runs alone, and no step changes a field of the Server, a mapped      *)
(* region or the state of a mapping.                                       *)
(***************************************************************************)
C19_RequestsIndependent ==
  /\ [](\A t \in Threads :
          resp.threads[t].pc = "done" => resp.threads[t].result = Alone(resp.threads[t]))
  /\ [][server' = server /\ dir' = dir /\ mem' = mem]_vars

\* Two requests are in flight at once, a GetHistory that has fetched one
\* item and holds the next wire index in its scratch, and a GetItem that
\* holds an offset in its own.
C19_Witness ==
  \E t, u \in Threads :
    /\ t # u
    /\ resp.threads[t].pc = "haveIndex" /\ resp.threads[t].k = 1
    /\ resp.threads[u].pc = "haveEnd"
    /\ resp.scratch[ScratchOf(t)] # resp.scratch[ScratchOf(u)]

(***************************************************************************)
(* C21: once Builder.Close has returned, with nil or with an error from    *)
(* any of its steps, the scratch file addresses.tmp does not exist.        *)
(***************************************************************************)
C21_ScratchRemoved ==
  phase \in {"closed", "close failed", "serving"} => ~dir.addressesTmp

(***************************************************************************)
(* netlib: DownloadAllBlocks opens sessions with a peer and DownloadBlocks *)
(* sends the blocks it reads to the channel.  The peer may send any        *)
(* blocks, and any read or write on the connection may fail.               *)
(***************************************************************************)
\* The length of the chain the peer holds above genesis.
MaxChain == 3

\* The most sessions DownloadAllBlocks opens in a run.
MaxSessions == 2

\* The most blocks in one slice read from the wire.
MaxBatch == 2

\* types.GenesisID.
GenesisID == 0

\* The blocks of the peer's chain, a block that competes with the first
\* one, and a block whose parent nobody has.  ID stands for b.ID().
ChainBlocks == {[ID |-> i, ParentID |-> i - 1] : i \in 1..MaxChain}
ForkBlock == [ID |-> MaxChain + 1, ParentID |-> GenesisID]
OrphanBlock == [ID |-> MaxChain + 2, ParentID |-> MaxChain + 3]
Blocks == ChainBlocks \cup {ForkBlock, OrphanBlock}

\* The slices of blocks a peer may send.
Batches == UNION {[1..n -> Blocks] : n \in 0..MaxBatch}

\* The errors of a read that end a stream, and another error of a read.
EndOfStream == {"EOF", "ErrUnexpectedEOF"}
ReadErrors == EndOfStream \cup {"connection reset"}

\* A variant of ParentMatches that accepts every block.
ParentMatchesAny(b, prevBlockID) == TRUE

\* The test DownloadBlocks makes of a block before sending it.
ParentMatches(b, prevBlockID) == b.ParentID = prevBlockID

\* The loop of DownloadBlocks over newBlocks: each block whose parent is
\* prevBlockID is sent and becomes prevBlockID; the first other block ends
\* the session.
RECURSIVE SendBlocks(_, _, _)
SendBlocks(newBlocks, prevBlockID, sent) ==
  IF newBlocks = <<>> THEN [prev |-> prevBlockID, sent |-> sent, err |-> "nil"]
  ELSE LET b == Head(newBlocks)
       IN  IF ~ParentMatches(b, prevBlockID)
           THEN [prev |-> prevBlockID, sent |-> sent, err |-> "parent"]
           ELSE SendBlocks(Tail(newBlocks), b.ID, Append(sent, b))

\* DownloadAllBlocks once DownloadBlocks has returned (newPrevBlockID, err).
AfterDownloadBlocks(prevBlockID, newPrevBlockID, err) ==
  IF err = "nil" \/ newPrevBlockID = prevBlockID
  THEN [pc |-> "returned", result |-> "nil", prev |-> prevBlockID]
  ELSE IF err # "EOF" /\ err # "ErrUnexpectedEOF"
  THEN [pc |-> "returned", result |-> err, prev |-> prevBlockID]
  ELSE [pc |-> "loop", result |-> "running", prev |-> newPrevBlockID]

InitDownload ==
  /\ net = [pc |-> "loop", prevBlockID |-> GenesisID, cur |-> GenesisID,
            sent |-> <<>>, from |-> 0, ended |-> <<>>, opened |-> 0,
            result |-> "running"]
  /\ par = ParWide
  /\ builder = Fields(NewBuilder(ParWide), BuilderFields)
  /\ dir = Fields(NewBuilder(ParWide), FileFields) @@ AddressFiles(ParWide)
  /\ ledger = <<>>
  /\ added = 0
  /\ addOk = TRUE
  /\ lastErr = "nil"
  /\ phase = "idle"
  /\ server = NoServer
  /\ resp = NoResp
  /\ uniq = NoUniq
  /\ mem = NoMappings
  /\ call = NoCall

\* net once the session has returned (newPrevBlockID, err) with sent on the
\* channel: the session is recorded and DownloadAllBlocks goes on.
EndSession(newPrevBlockID, err, sent) ==
  LET a == AfterDownloadBlocks(net.prevBlockID, newPrevBlockID, err)
  IN  [net EXCEPT !.pc = a.pc, !.result = a.result, !.prevBlockID = a.prev,
                  !.cur = a.prev, !.sent = sent, !.from = Len(sent),
                  !.ended = Append(@, [input |-> net.prevBlockID,
                                       returned |-> newPrevBlockID, err |-> err,
                                       first |-> net.from, last |-> Len(sent)])]

\* sess() and the two writes that open DownloadBlocks.
OpenSession(outcome) ==
  /\ net.pc = "loop"
  /\ net.opened < MaxSessions
  /\ net' = IF outcome = "sess error"
            THEN [net EXCEPT !.pc = "returned", !.result = outcome, !.opened = @ + 1]
            ELSE IF outcome = "write error"
            THEN [EndSession(net.prevBlockID, outcome, net.sent) EXCEPT !.opened = @ + 1]
            ELSE [net EXCEPT !.pc = "session", !.cur = net.prevBlockID, !.opened = @ + 1]
  /\ UNCHANGED cacheVarsNoNet

\* One round of the loop of DownloadBlocks: a slice and moreAvailable are
\* read and the blocks sent.
ReceiveBlocks(newBlocks, moreAvailable) ==
  /\ net.pc = "session"
  /\ LET r == SendBlocks(newBlocks, net.cur, net.sent)
     IN  net' = IF r.err # "nil" THEN EndSession(r.prev, r.err, r.sent)
                ELSE IF moreAvailable THEN [net EXCEPT !.cur = r.prev, !.sent = r.sent]
                ELSE EndSession(r.prev, "nil", r.sent)
  /\ UNCHANGED cacheVarsNoNet

\* A read of the slice or of moreAvailable fails.
ReadFails(err) ==
  /\ net.pc = "session"
  /\ net' = EndSession(net.cur, err, net.sent)
  /\ UNCHANGED cacheVarsNoNet

NextDownload ==
  \/ \E outcome \in {"ok", "sess error", "write error"} : OpenSession(outcome)
  \/ \E newBlocks \in Batches, moreAvailable \in BOOLEAN :
       ReceiveBlocks(newBlocks, moreAvailable)
  \/ \E err \in ReadErrors : ReadFails(err)

SpecDownload == InitDownload /\ [][NextDownload]_vars

(***************************************************************************)
(* C22: a session that ends at the end of the stream (io.EOF or            *)
(* io.ErrUnexpectedEOF) having delivered a block is followed by a new      *)
(* session from the last delivered block; DownloadAllBlocks returns nil    *)
(* only after a session that completed with moreAvailable = false or that  *)
(* ended at the end of the stream without delivering a block; a session    *)
(* that ends with any other error makes it return that error.              *)
(***************************************************************************)
C22_SessionOutcomes ==
  net.pc # "none" =>
    LET n == Len(net.ended)
    IN  /\ net.result = "nil" =>
             /\ n > 0
             /\ \/ net.ended[n].err = "nil"
                \/ net.ended[n].err \in EndOfStream /\ net.ended[n].last = net.ended[n].first
        /\ \A k \in 1..n :
             LET s == net.ended[k]
             IN  /\ (s.err \in EndOfStream /\ s.last > s.first) =>
                       /\ net.result \in {"running", "sess error"} \/ k < n
                       /\ (IF k < n THEN net.ended[k + 1].input ELSE net.prevBlockID)
                            = net.sent[s.last].ID
                 /\ s.err \notin (EndOfStream \cup {"nil"}) =>
                       /\ k = n
                       /\ net.pc = "returned"
                       /\ net.result = s.err

(***************************************************************************)
(* C23: the blocks sent on the channel in a run of DownloadAllBlocks form  *)
(* one chain from genesis, none is sent twice, and DownloadBlocks returns  *)
(* the ID of the last block it sent, or its input when it sent none.       *)
(***************************************************************************)
C23_OneChain ==
  net.pc # "none" =>
    /\ \A k \in 1..Len(net.sent) :
         net.sent[k].ParentID = IF k = 1 THEN GenesisID ELSE net.sent[k - 1].ID
    /\ \A j, k \in 1..Len(net.sent) : j < k => net.sent[j] # net.sent[k]
    /\ \A k \in 1..Len(net.ended) :
         LET s == net.ended[k]
         IN  s.returned = IF s.last > s.first THEN net.sent[s.last].ID ELSE s.input

\* Two sessions have delivered blocks, the second after a reconnect, and a
\* block with another parent has ended the second.
C23_Witness ==
  /\ net.pc = "returned"
  /\ Len(net.ended) = 2
  /\ net.ended[1].err = "EOF" /\ net.ended[1].last > net.ended[1].first
  /\ net.ended[2].err = "parent" /\ net.ended[2].last > net.ended[2].first

(***************************************************************************)
(* Builder.Add under parameter sets within the documented constraints      *)
(* (every length at most 8), on both sides of                              *)
(* 2 * OffsetIndexLen = max(8, AddressPrefixLen + OffsetIndexLen).         *)
(***************************************************************************)
ViewParams ==
  {Params(2, 2, 2, 2), Params(2, 3, 2, 3), Params(2, 4, 2, 4), Params(2, 4, 1, 4),
   Params(2, 5, 2, 5), Params(2, 5, 1, 5), Params(2, 8, 2, 8), Params(2, 6, 2, 6)}

InitViews ==
  /\ \E p \in ViewParams :
       /\ par = p
       /\ builder = Fields(NewBuilder(p), BuilderFields)
       /\ dir = Fields(NewBuilder(p), FileFields) @@ AddressFiles(p)
  /\ ledger = <<>>
  /\ added = 0
  /\ addOk = TRUE
  /\ lastErr = "nil"
  /\ phase = "building"
  /\ server = NoServer
  /\ resp = NoResp
  /\ uniq = NoUniq
  /\ mem = NoMappings
  /\ net = NoDownload
  /\ call = NoCall

NextViews == \E block \in InputBlocks : AddBlock(block)

SpecViews == InitViews /\ [][NextViews]_vars

(***************************************************************************)
(* C25: once Add has run, every view it takes of the scratch buffer ends   *)
(* within the buffer, and Add has not faulted on a buffer bound.           *)
(***************************************************************************)
C25_ViewsInBuffer ==
  added > 0 =>
    /\ \A i \in 1..Len(AddViews(par)) : AddViews(par)[i] <= Len(builder.buf)
    /\ lastErr # SliceBounds

(***************************************************************************)
(* C26: the NumMinerPayouts of the Item that GetItem(i) returns is the      *)
(* number of miner payouts of the block that holds item i, that is         *)
(* firstTxIdx(b) - firstPayoutIdx(b) of the block's stored location.       *)
(***************************************************************************)
C26_NumMinerPayouts ==
  (phase = "serving" /\ resp.op = "GetItem" /\ resp.result.err = "nil") =>
    LET k == resp.result.item.Block + 1
    IN  resp.result.item.NumMinerPayouts = StoredFirstTxIdx(k) - StoredFirstPayoutIdx(k)

(***************************************************************************)
(* Functions called on their own: VerifyBlockHeaders of the client and the *)
(* Location codec.  A list of headers is kept as its length in bytes and   *)
(* the timestamp of each complete 48-byte header; nonces and Merkle roots  *)
(* take no part in the verification.                                       *)
(***************************************************************************)
\* The most complete headers in a list.
MaxHeaders == 2

\* The bytes of one header in the list.
HeaderLen == 48

\* types.MedianTimestampWindow, types.FutureThreshold,
\* types.ExtremeFutureThreshold and types.GenesisTimestamp.
MedianTimestampWindow == 11
FutureThreshold == 10800
ExtremeFutureThreshold == 18000
GenesisTimestamp == 1433600000

\* types.CurrentTimestamp(): the clock, a day after genesis.
CurrentTimestamp == GenesisTimestamp + 8 * FutureThreshold

Timestamps ==
  {GenesisTimestamp - 1, GenesisTimestamp, CurrentTimestamp,
   CurrentTimestamp + FutureThreshold + 1,
   CurrentTimestamp + ExtremeFutureThreshold + 1}

HeaderInputs ==
  UNION {{[len |-> k * HeaderLen + stray, timestamps |-> ts] :
            stray \in {0, HeaderLen - 1}, ts \in [1..k -> Timestamps]} :
         k \in 0..MaxHeaders}

IndexOutOfRange == "panic: index out of range"

\* getHeadersSlice: the slice has len(headers)/48 elements and element 0 is
\* assigned the genesis header whatever the length.  The ID of that header
\* is GenesisID, so the test of the second header's ParentID passes.
getHeadersSlice(headers) ==
  LET headersN == headers.len \div HeaderLen
  IN  IF headersN = 0 THEN [panic |-> IndexOutOfRange, headersSlice |-> <<>>]
      ELSE [panic |-> "none",
            headersSlice |->
              [i \in 1..headersN |->
                 [Timestamp |-> IF i = 1 THEN GenesisTimestamp
                                ELSE headers.timestamps[i]]]]

verifyBlockHeader(header, minTimestamp) ==
  IF header.Timestamp < minTimestamp
  THEN "Block header validation failed: EarlyTimestamp"
  ELSE IF header.Timestamp > CurrentTimestamp + ExtremeFutureThreshold
  THEN "Block header validation failed: ExtremeFutureTimestamp"
  ELSE IF header.Timestamp > CurrentTimestamp + FutureThreshold
  THEN "Block header validation failed: FutureTimestamp"
  ELSE "nil"

\* minimumValidChildTimestamp: the median of the timestamps of the header
\* and of those before it, the first header's repeated to fill the window.
\* headerIndex counts from 1.
minimumValidChildTimestamp(headers, headerIndex) ==
  LET windowTimes == [i \in 1..MedianTimestampWindow |->
                        IF headerIndex - (i - 1) >= 1
                        THEN headers[headerIndex - (i - 1)].Timestamp
                        ELSE headers[1].Timestamp]
      half == MedianTimestampWindow \div 2
      below(v) == Cardinality({i \in 1..MedianTimestampWindow : windowTimes[i] < v})
      upTo(v) == Cardinality({i \in 1..MedianTimestampWindow : windowTimes[i] <= v})
  IN  CHOOSE v \in {windowTimes[i] : i \in 1..MedianTimestampWindow} :
        below(v) <= half /\ upTo(v) > half

\* The loop of VerifyBlockHeaders from header i on.
RECURSIVE VerifyFrom(_, _, _)
VerifyFrom(headersSlice, i, minTimestamp) ==
  IF i > Len(headersSlice) THEN "nil"
  ELSE LET err == verifyBlockHeader(headersSlice[i], minTimestamp)
       IN  IF err # "nil" THEN err
           ELSE VerifyFrom(headersSlice, i + 1,
                           minimumValidChildTimestamp(headersSlice, i))

\* VerifyBlockHeaders: the error returned, "nil", or the panic.
VerifyBlockHeaders(headers) ==
  LET g == getHeadersSlice(headers)
  IN  IF g.panic # "none" THEN g.panic
      ELSE IF headers.len \div HeaderLen = 0 THEN "Can't verify list of 0 headers"
      ELSE VerifyFrom(g.headersSlice, 1, g.headersSlice[1].Timestamp)

\* binary.MaxVarintLen64.
MaxVarintLen64 == 10

\* The fields of a Location, in the order they are written.
LocationFields == <<"Block", "Tx", "Nature", "Index", "Index0">>

\* Field values of one, two and five bytes as varints.
FieldValues == {0, 128, 2^28}
Locations == [{LocationFields[i] : i \in 1..Len(LocationFields)} -> FieldValues]

\* The five varints of a Location, one after the other.
RECURSIVE Varints(_, _)
Varints(loc, k) ==
  IF k > Len(LocationFields) THEN <<>>
  ELSE PutUvarint(loc[LocationFields[k]]) \o Varints(loc, k + 1)

\* Serialize: the varints are written to buf0, buf is what is left of buf0
\* after them, and buf0[:len(buf)] is returned.
Serialize(loc) ==
  LET size == MaxVarintLen64 * Len(LocationFields)
      written == Varints(loc, 1)
      buf0 == written \o Zeros(size - Len(written))
      buf == SubSeq(buf0, Len(written) + 1, size)
  IN  SubSeq(buf0, 1, Len(buf))

\* Deserialize from field k on: the Location, or the panic.
RECURSIVE DeserializeFrom(_, _, _)
DeserializeFrom(value, k, read) ==
  IF k > Len(LocationFields)
  THEN IF Len(value) # 0 THEN [panic |-> "Value is too long"]
       ELSE [panic |-> "none",
             loc |-> [f \in {LocationFields[i] : i \in 1..Len(LocationFields)} |->
                        read[CHOOSE i \in 1..Len(LocationFields) : LocationFields[i] = f]]]
  ELSE LET u == Uvarint(value)
       IN  IF u.n <= 0 THEN [panic |-> "Value is too short"]
           ELSE DeserializeFrom(SubSeq(value, u.n + 1, Len(value)), k + 1,
                                Append(read, u.v))

Deserialize(value) == DeserializeFrom(value, 1, <<>>)

InitCalls ==
  /\ call \in {[fn |-> "VerifyBlockHeaders", headers |-> h, done |-> FALSE] :
                 h \in HeaderInputs}
              \cup {[fn |-> "Serialize", loc |-> l, done |-> FALSE] : l \in Locations}
  /\ par = ParWide
  /\ builder = Fields(NewBuilder(ParWide), BuilderFields)
  /\ dir = Fields(NewBuilder(ParWide), FileFields) @@ AddressFiles(ParWide)
  /\ ledger = <<>>
  /\ added = 0
  /\ addOk = TRUE
  /\ lastErr = "nil"
  /\ phase = "idle"
  /\ server = NoServer
  /\ resp = NoResp
  /\ uniq = NoUniq
  /\ mem = NoMappings
  /\ net = NoDownload

CallVerifyBlockHeaders ==
  /\ call.fn = "VerifyBlockHeaders" /\ ~call.done
  /\ call' = [fn |-> call.fn, headers |-> call.headers, done |-> TRUE,
              result |-> VerifyBlockHeaders(call.headers)]
  /\ UNCHANGED cacheVarsNoCall

CallSerialize ==
  /\ call.fn = "Serialize" /\ ~call.done
  /\ call' = [fn |-> call.fn, loc |-> call.loc, done |-> TRUE,
              value |-> Serialize(call.loc)]
  /\ UNCHANGED cacheVarsNoCall

\* Deserialize of what Serialize returned.
CallDeserialize ==
  /\ call.fn = "Serialize" /\ call.done
  /\ call' = [fn |-> "Deserialize", loc |-> call.loc, value |-> call.value,
              done |-> TRUE, result |-> Deserialize(call.value)]
  /\ UNCHANGED cacheVarsNoCall

NextCalls == CallVerifyBlockHeaders \/ CallSerialize \/ CallDeserialize

SpecCalls == InitCalls /\ [][NextCalls]_vars

(***************************************************************************)
(* C24: VerifyBlockHeaders of fewer than 48 bytes returns the error        *)
(* "Can't verify list of 0 headers" and does not fault before that check.  *)
(***************************************************************************)
C24_ZeroHeaders ==
  (call.fn = "VerifyBlockHeaders" /\ call.done /\ call.headers.len < HeaderLen) =>
    call.result = "Can't verify list of 0 headers"

(***************************************************************************)
(* C27: for a Location of non-negative fields Serialize returns the five   *)
(* unsigned varints one after the other and nothing else, and Deserialize  *)
(* of that returns the Location and does not panic.                        *)
(***************************************************************************)
C27_LocationRoundTrip ==
  /\ (call.fn \in {"Serialize", "Deserialize"} /\ call.done) =>
       call.value = Varints(call.loc, 1)
  /\ call.fn = "Deserialize" => call.result = [panic |-> "none", loc |-> call.loc]
====
